---- MODULE Spec2Model ----
(***************************************************************************)
(* Model of the Moveo webhooks: the edit flow (app/api/editData/route.ts,  *)
(* whose code is carried by README.md), its classifier wrapper             *)
(* (lib/openai.ts) and the row-store / event-store it drives.              *)
(*                                                                         *)
(* Strings on which the code computes character by character (trim,        *)
(* toLowerCase, replace, endsWith, includes, slice) are sequences of       *)
(* one-character strings.  Fixed message literals that the code only       *)
(* concatenates are kept as atomic TLA+ strings.                           *)
(***************************************************************************)
EXTENDS Integers, Sequences, FiniteSets, TLC

\* ------------------------------------------------------------------------
\* Characters and JavaScript string primitives
\* ------------------------------------------------------------------------

UpperSeq == << "A","B","C","D","E","F","G","H","I","J","K","L","M",
               "N","O","P","Q","R","S","T","U","V","W","X","Y","Z" >>

LowerSeq == << "a","b","c","d","e","f","g","h","i","j","k","l","m",
               "n","o","p","q","r","s","t","u","v","w","x","y","z" >>

Digits == { "0","1","2","3","4","5","6","7","8","9" }

\* \s of the regular expressions and of String.prototype.trim
IsSpace(c) == c \in { " ", "\n", "\t" }

\* \D is every character that is not a decimal digit
IsDigit(c) == c \in Digits

LowerChar(c) ==
    IF \E i \in 1..Len(UpperSeq) : UpperSeq[i] = c
    THEN LowerSeq[CHOOSE i \in 1..Len(UpperSeq) : UpperSeq[i] = c]
    ELSE c

\* String.prototype.toLowerCase
ToLower(s) == [i \in 1..Len(s) |-> LowerChar(s[i])]

\* String.prototype.trim: drops leading and trailing whitespace
Trim(s) ==
    IF \A i \in 1..Len(s) : IsSpace(s[i])
    THEN << >>
    ELSE LET first == CHOOSE i \in 1..Len(s) :
                         /\ ~IsSpace(s[i])
                         /\ \A j \in 1..(i-1) : IsSpace(s[j])
             last  == CHOOSE i \in 1..Len(s) :
                         /\ ~IsSpace(s[i])
                         /\ \A j \in (i+1)..Len(s) : IsSpace(s[j])
         IN  SubSeq(s, first, last)

\* String.prototype.endsWith
EndsWith(s, suf) ==
    /\ Len(suf) <= Len(s)
    /\ SubSeq(s, Len(s) - Len(suf) + 1, Len(s)) = suf

\* String.prototype.includes
Includes(s, sub) ==
    \E i \in 0..(Len(s) - Len(sub)) : SubSeq(s, i + 1, i + Len(sub)) = sub

\* Array.prototype.join over an array of strings
RECURSIVE Join(_, _)
Join(parts, sep) ==
    IF parts = << >> THEN << >>
    ELSE IF Len(parts) = 1 THEN parts[1]
    ELSE parts[1] \o sep \o Join(Tail(parts), sep)

\* The lines of a text: the pieces between "\n" characters; the empty text
\* has no line.
RECURSIVE Lines(_)
Lines(s) ==
    IF s = << >> THEN << >>
    ELSE IF \E i \in 1..Len(s) : s[i] = "\n"
         THEN LET k == CHOOSE i \in 1..Len(s) :
                          s[i] = "\n" /\ \A j \in 1..(i-1) : s[j] # "\n"
              IN  << SubSeq(s, 1, k - 1) >> \o
                  (IF k = Len(s) THEN << << >> >> ELSE Lines(SubSeq(s, k + 1, Len(s))))
         ELSE << s >>

\* String.prototype.slice(-11)
Last11(s) == SubSeq(s, IF Len(s) > 11 THEN Len(s) - 10 ELSE 1, Len(s))

\* ------------------------------------------------------------------------
\* editData utilities
\* ------------------------------------------------------------------------

\* onlyDigits: (s || "").replace(/\D+/g, "")
onlyDigits(s) == SelectSeq(s, IsDigit)

\* replace(/\s+/g, "_"): every maximal run of whitespace becomes one "_"
RECURSIVE ReplaceSpaceRuns(_)
ReplaceSpaceRuns(s) ==
    IF s = << >> THEN << >>
    ELSE IF IsSpace(s[1])
         THEN IF Len(s) > 1 /\ IsSpace(s[2])
              THEN ReplaceSpaceRuns(Tail(s))
              ELSE << "_" >> \o ReplaceSpaceRuns(Tail(s))
         ELSE << s[1] >> \o ReplaceSpaceRuns(Tail(s))

\* normalizeHeader: String(h || "").trim().toLowerCase().replace(/\s+/g, "_")
normalizeHeader(h) == ReplaceSpaceRuns(ToLower(Trim(h)))


\* extractSheetName: the part of the range before "!", else "Sheet1"
extractSheetName(range) ==
    IF \E i \in 1..Len(range) : range[i] = "!"
    THEN LET idx == CHOOSE i \in 1..Len(range) :
                        range[i] = "!" /\ \A j \in 1..(i-1) : range[j] # "!"
         IN  SubSeq(range, 1, idx - 1)
    ELSE << "S","h","e","e","t","1" >>

\* columnNumberToLetter: 0-based column number to A1 letters (bijective
\* base 26), the while loop unrolled as a recursion on n
RECURSIVE LettersOf(_)
LettersOf(n) ==
    IF n > 0
    THEN LettersOf((n - 1) \div 26) \o << UpperSeq[((n - 1) % 26) + 1] >>
    ELSE << >>

\* columnNumberToLetter without the shift to 1-based
columnNumberToLetter_ZeroBased(num) == LettersOf(num)

columnNumberToLetter(num) == LettersOf(num + 1)

\* buildPlainConversation, the text of one message.  An absent or null
\* text is the empty sequence: the code reads it through `?? ""` and `||`.
FragmentText(r) ==
    IF r.text # << >> THEN r.text ELSE Join(r.texts, << " " >>)

MessageLine(m) ==
    IF m.event = "message:received"
    THEN << "U", ":", " " >> \o m.text
    ELSE IF m.event = "message:brain_send"
    THEN LET texts  == [i \in 1..Len(m.responses) |-> FragmentText(m.responses[i])]
             joined == Join(SelectSeq(texts, LAMBDA t : t # << >>), << " " >>)
         IN  IF joined # << >> THEN << "A", ":", " " >> \o joined ELSE << >>
    ELSE << >>

\* buildPlainConversation: map, filter(Boolean), join("\n")
buildPlainConversation(msgs) ==
    Join(SelectSeq([i \in 1..Len(msgs) |-> MessageLine(msgs[i])],
                   LAMBDA l : l # << >>),
         << "\n" >>)

\* POST, "dupla verificacao": append the live text unless the flattened
\* history already ends with it, then trim
UserLine(live) == << "U", ":", " " >> \o live

Reconcile(msgs, live) ==
    LET conversationFromHistory == buildPlainConversation(msgs)
    IN  Trim(IF live # << >> /\ ~EndsWith(conversationFromHistory, UserLine(live))
             THEN conversationFromHistory \o << "\n" >> \o UserLine(live)
             ELSE conversationFromHistory)


\* ------------------------------------------------------------------------
\* Identifier and field resolution (Google Sheets helpers)
\* ------------------------------------------------------------------------

K_telefone == << "t","e","l","e","f","o","n","e" >>
K_phone    == << "p","h","o","n","e" >>
K_email    == << "e","m","a","i","l" >>
K_nome     == << "n","o","m","e" >>
K_name     == << "n","a","m","e" >>

\* headers.findIndex(h => h === wanted): 0-based index of the first equal
\* header, -1 when there is none
HeaderIndex(headers, wanted) ==
    IF \E i \in 1..Len(headers) : headers[i] = wanted
    THEN (CHOOSE i \in 1..Len(headers) :
             headers[i] = wanted /\ \A j \in 1..(i-1) : headers[j] # wanted) - 1
    ELSE -1

\* String(values[i]?.[col] ?? ""), i and col 0-based
CellAt(values, i, col) ==
    IF i + 1 <= Len(values) /\ col + 1 <= Len(values[i + 1])
    THEN values[i + 1][col + 1]
    ELSE << >>

\* The test of one cell against one candidate value, in the column `header`
CellMatches(header, cell, value) ==
    IF Includes(header, K_telefone) \/ Includes(header, K_phone)
    THEN onlyDigits(value) # << >> /\ onlyDigits(cell) = onlyDigits(value)
    ELSE ToLower(Trim(cell)) = ToLower(Trim(value))

\* Candidates with the explicit identifier tried last
Candidates_FallbackFirst(identifier, fallback) ==
    (IF fallback.email # << >>
     THEN << [key |-> K_email, value |-> fallback.email] >> ELSE << >>)
    \o (IF fallback.phone # << >>
        THEN << [key |-> K_telefone, value |-> fallback.phone],
                [key |-> K_phone,    value |-> fallback.phone] >> ELSE << >>)
    \o (IF fallback.name # << >>
        THEN << [key |-> K_nome, value |-> fallback.name] >> ELSE << >>)
    \o (IF identifier.key # << >> /\ identifier.value # << >>
        THEN << [key |-> normalizeHeader(identifier.key), value |-> identifier.value] >>
        ELSE << >>)

\* The candidate list: the explicit identifier, then the fallback email,
\* phone (under "telefone" and under "phone") and name
Candidates(identifier, fallback) ==
    (IF identifier.key # << >> /\ identifier.value # << >>
     THEN << [key |-> normalizeHeader(identifier.key), value |-> identifier.value] >>
     ELSE << >>)
    \o (IF fallback.email # << >>
        THEN << [key |-> K_email, value |-> fallback.email] >> ELSE << >>)
    \o (IF fallback.phone # << >>
        THEN << [key |-> K_telefone, value |-> fallback.phone],
                [key |-> K_phone,    value |-> fallback.phone] >> ELSE << >>)
    \o (IF fallback.name # << >>
        THEN << [key |-> K_nome, value |-> fallback.name] >> ELSE << >>)

\* The inner loop: the first data row (index >= 1) of `values` whose cell in
\* column col matches, -1 when none does
FirstMatchingRow(values, headers, col, value) ==
    LET hit(i) == CellMatches(headers[col + 1], CellAt(values, i, col), value)
    IN  IF \E i \in 1..(Len(values) - 1) : hit(i)
        THEN CHOOSE i \in 1..(Len(values) - 1) :
                 hit(i) /\ \A j \in 1..(i-1) : ~hit(j)
        ELSE -1

\* The outer loop over the candidates, in order
RECURSIVE FindByCandidates(_, _, _)
FindByCandidates(values, headers, cands) ==
    IF cands = << >> THEN -1
    ELSE LET col == HeaderIndex(headers, normalizeHeader(cands[1].key))
             row == IF col >= 0
                    THEN FirstMatchingRow(values, headers, col, cands[1].value)
                    ELSE -1
         IN  IF row >= 0 THEN row
             ELSE FindByCandidates(values, headers, Tail(cands))

findRowIndexByIdentifier(values, headers, identifier, fallback) ==
    FindByCandidates(values, headers, Candidates(identifier, fallback))

\* The alias table of findColumnIndexByField, in Object.keys order
AliasKeys == << K_telefone, K_email, K_nome >>

AliasOf(k) ==
    IF k = K_telefone
    THEN << K_telefone, K_phone,
            << "c","e","l","u","l","a","r" >>,
            << "m","o","b","i","l","e" >>,
            << "u","s","e","r","_","p","h","o","n","e" >>,
            << "t","e","l","e","f","o","n","e","_","d","o","_",
               "u","s","u","a","r","i","o" >> >>
    ELSE IF k = K_email
    THEN << K_email,
            << "e","-","m","a","i","l" >>,
            << "m","a","i","l" >>,
            << "u","s","e","r","_","e","m","a","i","l" >> >>
    ELSE << K_nome, K_name,
            << "u","s","e","r","_","n","a","m","e" >>,
            << "f","u","l","l","_","n","a","m","e" >> >>

\* The first alias of the list that is a header, as a 0-based index, or -1
RECURSIVE FirstAliasIndex(_, _)
FirstAliasIndex(headers, aliases) ==
    IF aliases = << >> THEN -1
    ELSE IF HeaderIndex(headers, aliases[1]) >= 0
         THEN HeaderIndex(headers, aliases[1])
         ELSE FirstAliasIndex(headers, Tail(aliases))

RECURSIVE AliasLookup(_, _, _)
AliasLookup(headers, wanted, keys) ==
    IF keys = << >> THEN -1
    ELSE LET idx == IF Includes(wanted, keys[1])
                    THEN FirstAliasIndex(headers, AliasOf(keys[1]))
                    ELSE -1
         IN  IF idx >= 0 THEN idx ELSE AliasLookup(headers, wanted, Tail(keys))

findColumnIndexByField(headers, field) ==
    IF field = << >> THEN -1
    ELSE LET wanted == normalizeHeader(field)
         IN  IF HeaderIndex(headers, wanted) >= 0
             THEN HeaderIndex(headers, wanted)
             ELSE AliasLookup(headers, wanted, AliasKeys)


\* ------------------------------------------------------------------------
\* Row-store (Google Sheets values API) as the handler sees it
\* ------------------------------------------------------------------------

\* SHEET_RANGE = process.env.SHEET_RANGE || "Página1!A:Z"
SHEET_RANGE == << "P","á","g","i","n","a","1","!","A",":","Z" >>

\* The tab of the spreadsheet that holds the directory
SheetTab == << "P","á","g","i","n","a","1" >>

\* A1 column letters back to a 0-based column number, as the store reads
\* the range of an update
RECURSIVE LetterValue(_)
LetterValue(letters) ==
    IF letters = << >> THEN 0
    ELSE LetterValue(SubSeq(letters, 1, Len(letters) - 1)) * 26
         + (CHOOSE i \in 1..26 : UpperSeq[i] = letters[Len(letters)])

ColumnOfLetters(letters) == LetterValue(letters) - 1

\* A row without its trailing empty cells
RECURSIVE TrimRow(_)
TrimRow(row) ==
    IF row # << >> /\ row[Len(row)] = << >>
    THEN TrimRow(SubSeq(row, 1, Len(row) - 1))
    ELSE row

\* values.get over a range of whole columns: the rows from row 1 to the last
\* row that holds a value, each cut to the columns of the range and without
\* trailing empty cells
RECURSIVE DropEmptyTail(_)
DropEmptyTail(rows) ==
    IF rows # << >> /\ rows[Len(rows)] = << >>
    THEN DropEmptyTail(SubSeq(rows, 1, Len(rows) - 1))
    ELSE rows

\* The columns of a range "Tab!X:Y", 0-based (the form of every range the
\* repository names: "Página1!A:Z", "Página1!A:D", "Página1!A:C")
RangeColumns(range) ==
    LET bang  == CHOOSE i \in 1..Len(range) : range[i] = "!"
        colon == CHOOSE i \in 1..Len(range) : range[i] = ":"
    IN  [first |-> ColumnOfLetters(SubSeq(range, bang + 1, colon - 1)),
         last  |-> ColumnOfLetters(SubSeq(range, colon + 1, Len(range)))]

ValuesGet(grid, range) ==
    LET cols   == RangeColumns(range)
        cut(r) == SubSeq(r, cols.first + 1,
                         IF Len(r) < cols.last + 1 THEN Len(r) ELSE cols.last + 1)
    IN  DropEmptyTail([i \in 1..Len(grid) |-> TrimRow(cut(grid[i]))])

\* ValuesUpdate that fills the whole row of the cell
ValuesUpdate_WholeRow(grid, a1, v) ==
    [i \in 1..Len(grid) |-> IF i = a1.row THEN [k \in 1..Len(grid[i]) |-> v] ELSE grid[i]]

\* values.update of the single cell named by an A1 range
\* (sheet name, column letters, 1-based row number), valueInputOption RAW
ValuesUpdate(grid, a1, v) ==
    LET r     == a1.row
        c     == ColumnOfLetters(a1.col) + 1
        tall  == [i \in 1..(IF r > Len(grid) THEN r ELSE Len(grid)) |->
                     IF i <= Len(grid) THEN grid[i] ELSE << >>]
        old   == tall[r]
        wide  == [k \in 1..(IF c > Len(old) THEN c ELSE Len(old)) |->
                     IF k = c THEN v
                     ELSE IF k <= Len(old) THEN old[k] ELSE << >>]
    IN  [tall EXCEPT ![r] = wide]

\* updateSheetCell: the A1 range it builds for (rowIndex, colIndex), 0-based
CellRange(rowIndex, colIndex) ==
    [sheet |-> extractSheetName(SHEET_RANGE),
     col   |-> columnNumberToLetter(colIndex),
     row   |-> rowIndex + 1]


\* ------------------------------------------------------------------------
\* Values the requests, the classifier and the stores are drawn from
\* ------------------------------------------------------------------------

NoText == << >>

T_hi    == << "h","i" >>
T_ok    == << "o","k" >>
T_Ana   == << "A","n","a" >>
T_Bia   == << "B","i","a" >>
T_Bob   == << "B","o","b" >>
M_ana   == << "a","@","b",".","c","o","m" >>
M_bob   == << "b","@","b",".","c","o","m" >>
M_new   == << "c","@","d",".","c","o","m" >>

\* 11988887777, +5511988887777, +55 11 98888-7777, +5511999998888,
\* (11) 97777-6666, 98888-7777
P_cell  == << "1","1","9","8","8","8","8","7","7","7","7" >>
P_ident == << "+","5","5" >> \o P_cell
P_fmt   == << "+","5","5"," ","1","1"," ","9","8","8","8","8","-","7","7","7","7" >>
P_new   == << "+","5","5","1","1","9","9","9","9","9","8","8","8","8" >>
P_bob   == << "(","1","1",")"," ","9","7","7","7","7","-","6","6","6","6" >>
P_short == << "9","8","8","8","8","-","7","7","7","7" >>

H_Nome     == << "N","o","m","e" >>
H_Telefone == << "T","e","l","e","f","o","n","e" >>
H_Email    == << "E","m","a","i","l" >>
F_cidade   == << "c","i","d","a","d","e" >>

HeaderRow == << H_Nome, H_Telefone, H_Email >>
Row_Ana   == << T_Ana, P_cell, M_ana >>
Row_Bob   == << T_Bob, P_bob,  M_bob >>
Row_Bare  == << T_Bia >>
Row_Lia   == << T_Bia, P_short, M_new >>

\* The data rows a directory is built from
RowSet == { Row_Ana, Row_Bob, Row_Bare }

\* Number of data rows of a directory
MaxRows == 2

RECURSIVE SeqsUpTo(_, _)
SeqsUpTo(S, n) ==
    IF n = 0 THEN { << >> }
    ELSE LET shorter == SeqsUpTo(S, n - 1)
         IN  shorter \cup { Append(q, x) : q \in shorter, x \in S }

\* The sheet as the store may hold it: no row at all, or the header row
\* followed by up to MaxRows data rows, or by one user whose phone has no
\* area code
Sheets == { << >> } \cup { << HeaderRow >> \o rows : rows \in SeqsUpTo(RowSet, MaxRows) }
                   \cup { << HeaderRow, Row_Lia >> }

NoIdentifier == [key |-> NoText, value |-> NoText]

NoEvent == [eventId |-> NoText, summary |-> NoText, description |-> NoText,
            location |-> NoText, attendees |-> << >>,
            start |-> NoText, end |-> NoText,
            timezone |-> NoText, date |-> NoText, calendarId |-> NoText]

\* instruction = null, or a parsed value without the fields the handler reads
NoInstruction == [action |-> "", new_value |-> NoText, field |-> NoText,
                  identifier |-> NoIdentifier, event |-> NoEvent]

SheetActions    == { "update_phone", "update_email", "update_name", "update_sheet_field" }
CalendarActions == { "create_event", "update_event", "delete_event" }
KnownActions    == SheetActions \cup CalendarActions

ById(v) == [key |-> K_telefone, value |-> v]

SheetInstructions ==
    { [NoInstruction EXCEPT !.action = "update_phone", !.new_value = P_new,
                            !.identifier = ById(P_ident)],
      [NoInstruction EXCEPT !.action = "update_phone", !.new_value = P_new,
                            !.identifier = ById(P_cell)],
      [NoInstruction EXCEPT !.action = "update_phone", !.new_value = P_new],
      [NoInstruction EXCEPT !.action = "update_phone"],
      [NoInstruction EXCEPT !.action = "update_email", !.new_value = M_new,
                            !.identifier = ById(P_fmt)],
      [NoInstruction EXCEPT !.action = "update_email", !.new_value = M_new,
                            !.identifier = [key |-> H_Nome, value |-> T_Bob]],
      [NoInstruction EXCEPT !.action = "update_email", !.new_value = M_new,
                            !.identifier = [key |-> H_Nome,
                                            value |-> << " ","b","i","a"," " >>]],
      [NoInstruction EXCEPT !.action = "update_name", !.new_value = T_Bia,
                            !.identifier = ById(P_cell)],
      [NoInstruction EXCEPT !.action = "update_name", !.identifier = ById(P_cell)],
      [NoInstruction EXCEPT !.action = "update_sheet_field", !.field = H_Email,
                            !.new_value = M_new, !.identifier = ById(P_cell)],
      [NoInstruction EXCEPT !.action = "update_sheet_field", !.field = F_cidade,
                            !.new_value = T_ok, !.identifier = ById(P_cell)],
      [NoInstruction EXCEPT !.action = "update_sheet_field", !.new_value = T_ok],
      [NoInstruction EXCEPT !.action = "update_email", !.identifier = ById(P_cell)],
      [NoInstruction EXCEPT !.action = "update_sheet_field", !.field = H_Email,
                            !.identifier = ById(P_cell)],
      [NoInstruction EXCEPT !.action = "update_sheet_field", !.field = K_phone,
                            !.new_value = P_new, !.identifier = ById(P_cell)] }

OtherInstructions ==
    { NoInstruction,
      [NoInstruction EXCEPT !.action = "unknown"],
      [NoInstruction EXCEPT !.action = "error"],
      [NoInstruction EXCEPT !.action = "create_meeting", !.new_value = P_new,
                            !.identifier = ById(P_cell)] }


\* ------------------------------------------------------------------------
\* Event-store (Google Calendar events API) as the handler sees it
\* ------------------------------------------------------------------------

\* DEFAULT_TZ = process.env.DEFAULT_TZ || "America/Sao_Paulo"
DEFAULT_TZ == << "A","m","e","r","i","c","a","/","S","a","o","_","P","a","u","l","o" >>

C_primary == << "p","r","i","m","a","r","y" >>

D_sep10 == << "2","0","2","5","-","0","9","-","1","0" >>
D_sep11 == << "2","0","2","5","-","0","9","-","1","1" >>
D_sep12 == << "2","0","2","5","-","0","9","-","1","2" >>
S_sep10_09 == D_sep10 \o << "T","0","9",":","0","0",":","0","0","Z" >>
S_sep10_14 == D_sep10 \o << "T","1","4",":","0","0",":","0","0","Z" >>
S_sep11_09 == D_sep11 \o << "T","0","9",":","0","0",":","0","0","Z" >>
S_bad      == << "a","m","a","n","h","ã" >>

\* new Date(date + suffix).toISOString(): a yyyy-mm-dd date gives the
\* instant, anything else is an Invalid Date and toISOString throws
IsDate(d) ==
    /\ Len(d) = 10
    /\ \A i \in { 1, 2, 3, 4, 6, 7, 9, 10 } : IsDigit(d[i])
    /\ d[5] = "-" /\ d[8] = "-"

DayStart(date) == date \o << "T","0","0",":","0","0",":","0","0",".","0","0","0","Z" >>
DayEnd(date)   == date \o << "T","2","3",":","5","9",":","5","9",".","0","0","0","Z" >>

\* The instants of the model in chronological order
Instants == << DayStart(D_sep10), S_sep10_09, S_sep10_14, DayEnd(D_sep10),
               DayStart(D_sep11), S_sep11_09, DayEnd(D_sep11),
               DayStart(D_sep12) >>

InstantRank(t) ==
    IF \E i \in 1..Len(Instants) : Instants[i] = t
    THEN CHOOSE i \in 1..Len(Instants) : Instants[i] = t
    ELSE 0

T_Reuniao == << "R","e","u","n","i","a","o" >>
T_Sala    == << "S","a","l","a" >>
Id_1 == << "e","1" >>
Id_2 == << "e","2" >>
Id_3 == << "e","3" >>
Id_4 == << "e","4" >>
Id_gone == << "e","9" >>

\* Ids the store gives to inserted events, in order
IdPool == << Id_3, Id_4 >>

Ev_1 == [id |-> Id_1, calendarId |-> M_ana, summary |-> T_Reuniao,
         description |-> NoText, location |-> T_Sala, attendees |-> << >>,
         start |-> S_sep10_09, end |-> S_sep10_14, timeZone |-> DEFAULT_TZ]
Ev_2 == [Ev_1 EXCEPT !.id = Id_2, !.start = S_sep10_14, !.end = S_sep11_09,
                     !.location = NoText]

EventStores == { {}, { Ev_1 }, { Ev_1, Ev_2 } }

\* String.prototype.slice(0, 10)
Slice10(s) == SubSeq(s, 1, IF Len(s) < 10 THEN Len(s) ELSE 10)

\* events.list: the events of the calendar that match the free-text query,
\* end after timeMin and start before timeMax, ordered by start time, at
\* most maxResults
QueryMatches(e, q) ==
    \/ q = NoText
    \/ Includes(ToLower(e.summary), ToLower(q))
    \/ Includes(ToLower(e.description), ToLower(q))
    \/ Includes(ToLower(e.location), ToLower(q))

InWindow(e, timeMin, timeMax) ==
    /\ timeMin = NoText \/ InstantRank(e.end) > InstantRank(timeMin)
    /\ timeMax = NoText \/ InstantRank(e.start) < InstantRank(timeMax)

RECURSIVE ByStart(_)
ByStart(es) ==
    IF es = {} THEN << >>
    ELSE LET first == CHOOSE e \in es :
                         \A f \in es : InstantRank(e.start) <= InstantRank(f.start)
         IN  << first >> \o ByStart(es \ { first })

EventsList(store, calendarId, q, timeMin, timeMax, maxResults) ==
    LET hits == ByStart({ e \in store : /\ e.calendarId = calendarId
                                        /\ QueryMatches(e, q)
                                        /\ InWindow(e, timeMin, timeMax) })
    IN  SubSeq(hits, 1, IF Len(hits) < maxResults THEN Len(hits) ELSE maxResults)

\* events.insert: the new event under the next free id
FreshId(store) ==
    IF \E i \in 1..Len(IdPool) : \A e \in store : e.id # IdPool[i]
    THEN IdPool[CHOOSE i \in 1..Len(IdPool) :
                   /\ \A e \in store : e.id # IdPool[i]
                   /\ \A j \in 1..(i-1) : \E e \in store : e.id = IdPool[j]]
    ELSE Id_gone

Inserted(store, calendarId, requestBody) ==
    [id |-> FreshId(store), calendarId |-> calendarId,
     summary |-> requestBody.summary, description |-> requestBody.description,
     location |-> requestBody.location, attendees |-> requestBody.attendees,
     start |-> requestBody.start,
     end |-> requestBody.end, timeZone |-> requestBody.timeZone]

\* events.patch: only the fields the patch carries are replaced
\* (a field the handler left out of the patch is the empty text)
Patched(e, patch) ==
    [e EXCEPT !.summary     = IF patch.summary # NoText THEN patch.summary ELSE @,
              !.description = IF patch.description # NoText THEN patch.description ELSE @,
              !.location    = IF patch.location # NoText THEN patch.location ELSE @,
              !.start       = IF patch.start # NoText THEN patch.start ELSE @,
              !.end         = IF patch.end # NoText THEN patch.end ELSE @,
              !.timeZone    = IF patch.timeZone # NoText THEN patch.timeZone ELSE @]

HasEvent(store, calendarId, eventId) ==
    \E e \in store : e.calendarId = calendarId /\ e.id = eventId

TheEvent(store, calendarId, eventId) ==
    CHOOSE e \in store : e.calendarId = calendarId /\ e.id = eventId

\* calendarId || "primary" of the four calendar helpers
CalendarOrPrimary(calendarId) ==
    IF calendarId # NoText THEN calendarId ELSE C_primary

\* ------------------------------------------------------------------------
\* Requests and history logs
\* ------------------------------------------------------------------------

\* A request body.  session_id: whether any of the session id fields is
\* set; text: input.text ("" when absent); user_*: session_variables;
\* sys_name, sys_email: context.$user.display_name and context.$user.email.
\* shape "null" is a body that parses to JSON null.
EmptyBody == [shape |-> "object", session_id |-> FALSE, text |-> NoText,
              user_name |-> NoText, user_email |-> NoText, user_phone |-> NoText,
              sys_name |-> NoText, sys_email |-> NoText]

Bodies ==
    { EmptyBody,
      [EmptyBody EXCEPT !.shape = "null"],
      [EmptyBody EXCEPT !.text = << " ", "h", "i", " " >>],
      [EmptyBody EXCEPT !.session_id = TRUE],
      [EmptyBody EXCEPT !.session_id = TRUE, !.text = T_hi],
      [EmptyBody EXCEPT !.session_id = TRUE, !.text = T_hi, !.user_name = T_Ana,
                        !.user_email = M_ana, !.user_phone = P_cell],
      [EmptyBody EXCEPT !.session_id = TRUE, !.text = T_hi, !.user_phone = P_fmt,
                        !.sys_email = M_bob, !.sys_name = T_Bob],
      [EmptyBody EXCEPT !.session_id = TRUE, !.text = T_hi, !.user_name = T_Bia,
                        !.user_email = M_new, !.user_phone = P_new] }

UserMsg(t)   == [event |-> "message:received", text |-> t, responses |-> << >>]
AgentMsg(rs) == [event |-> "message:brain_send", text |-> NoText, responses |-> rs]
OtherMsg     == [event |-> "session:created", text |-> T_hi, responses |-> << >>]
Frag(t)      == [text |-> t, texts |-> << >>]
Frags(ts)    == [text |-> NoText, texts |-> ts]

\* The history logs the analytics store answers with in the edit flow
Logs ==
    { << >>,
      << OtherMsg, AgentMsg(<< >>), AgentMsg(<< Frag(NoText) >>) >>,
      << UserMsg(T_hi) >>,
      << UserMsg(T_ok), AgentMsg(<< Frag(T_ok), Frags(<< T_hi, T_ok >>) >>) >>,
      << UserMsg(NoText) >>,
      << UserMsg(T_ok), AgentMsg(<< Frag(<< "U", ":", " ", "h", "i" >>) >>) >> }

\* The error texts a failing Google API call carries
StoreErrors ==
    { "The caller does not have permission",
      "invalid_grant: Invalid JWT Signature for key 4f1c",
      "" }

\* ------------------------------------------------------------------------
\* Messages of the edit flow
\* ------------------------------------------------------------------------

\* A text is a sequence of segments: literals of the code and values
\* interpolated into them
Lit(s) == [lit |-> s]
Val(v) == [val |-> v]

EmptyHistoryMessage ==
    "Desculpe, não consegui recuperar o histórico da conversa para processar seu pedido. Por favor, tente novamente."

FailurePrefix == "Não consegui identificar ou executar a edição solicitada."

\* The catch of the dispatch: prefix, plus the error's message when it has one
FailureText(message) ==
    << Lit(FailurePrefix) >> \o
    (IF message # << >> THEN << Lit(" Detalhe: ") >> \o message ELSE << >>)

\* new Error(store text): no segment at all when the text is empty
StoreError(text) == IF text = "" THEN << >> ELSE << Lit(text) >>

EmptyResponse ==
    [status |-> 200,
     output |-> [responses |-> << [type |-> "text", texts |-> << EmptyHistoryMessage >>] >>]]

EditResponse(outputText) ==
    [status |-> 200, output |-> [live_instructions |-> outputText]]

InternalErrorResponse ==
    [status  |-> 500,
     context |-> [live_instructions |-> "### Erro\n- Falha interna ao processar sua solicitação."],
     output  |-> [responses |-> << [type |-> "text",
                    texts |-> << "Erro interno ao processar sua solicitação. Tente novamente." >>] >>]]


\* ------------------------------------------------------------------------
\* The edit flow: POST of app/api/editData/route.ts, one request
\* ------------------------------------------------------------------------

VARIABLES
    rival,         \* a second edit request in flight inside applySheetUpdate
    route,         \* the webhook that received the request in progress
    previous,      \* what the request before this one asked for and did
    pc,            \* position of the handler
    body,          \* the parsed request body
    messages,      \* the history log fetched for the session
    conversation,  \* the reconciled transcript
    instruction,   \* the classifier's instruction (NoInstruction for null)
    params,        \* the arguments of the store call in progress
    located,       \* rowIndex, colIndex and old value resolved by applySheetUpdate
    result,        \* what applySheetUpdate returned
    sheet,         \* the row-store: the grid of the directory tab
    events,        \* the event-store: the events of all calendars
    calls,         \* the external calls issued so far, in order
    sessionPatch,  \* the handler's sessionPatch object
    response       \* the HTTP response, once produced

vars == << rival, route, previous, pc, body, messages, conversation, instruction, params, located,
           result, sheet, events, calls, sessionPatch, response >>

None == [none |-> TRUE]

\* sessionVars of the handler
SessionVars(b) ==
    [user_name      |-> IF b.user_name # NoText THEN b.user_name ELSE b.sys_name,
     user_email     |-> IF b.user_email # NoText THEN b.user_email ELSE b.sys_email,
     user_phone     |-> b.user_phone,
     calendar_email |-> b.user_email]

FallbackIdentity(b) ==
    [email |-> SessionVars(b).user_email,
     phone |-> SessionVars(b).user_phone,
     name  |-> SessionVars(b).user_name]

\* The stores vary one at a time: any directory beside the full calendar,
\* any calendar beside the directory of one user
DefaultSheet  == << HeaderRow, Row_Ana >>
DefaultEvents == { Ev_1, Ev_2 }

\* No request came before: the server has just started
NoPrevious == [any |-> FALSE, instruction |-> NoInstruction, calls |-> << >>,
               replayed |-> None]

\* The bodies a request may arrive with: any, and for the replay of a
\* request the body it had
Arrivals == IF previous.replayed # None THEN { previous.replayed.body } ELSE Bodies

\* No second request is in flight
NoRival == [pc |-> "idle", instruction |-> NoInstruction, params |-> None,
            located |-> None, calls |-> << >>, response |-> None]

Init ==
    /\ rival = NoRival
    /\ route = ""
    /\ previous = NoPrevious
    /\ pc = "start"
    /\ body = EmptyBody
    /\ messages = << >>
    /\ conversation = NoText
    /\ instruction = NoInstruction
    /\ params = None
    /\ located = None
    /\ result = None
    /\ sheet \in Sheets
    /\ events \in EventStores
    /\ sheet = DefaultSheet \/ events = DefaultEvents
    /\ calls = << >>
    /\ sessionPatch = {}
    /\ response = None

\* An entry of the call log: the operation, whether it returned (ok) or
\* threw, and what it was called with
Call(op, ok, request) == [op |-> op, ok |-> ok, request |-> request]

\* Fail with the error escaping to the outer catch
Fail_EscapesToOuterCatch(message) ==
    /\ response' = InternalErrorResponse
    /\ pc' = "done"

\* The dispatch's catch: the failure text becomes the response, status 200
Fail(message) ==
    /\ response' = EditResponse(FailureText(message))
    /\ pc' = "done"

\* The end of a case that did not throw
Succeed(outputText) ==
    /\ response' = EditResponse(outputText)
    /\ pc' = "done"

\* const body = await req.json().catch(() => ({})); input.text is read with
\* body.input, which throws on a null body (outer catch, 500)
Receive ==
    /\ pc = "start"
    /\ route' = "editData"
    /\ \E b \in Arrivals :
         /\ body' = b
         /\ IF b.shape = "null"
            THEN response' = InternalErrorResponse /\ pc' = "done"
            ELSE response' = response /\ pc' = "fetch"
    /\ UNCHANGED << rival, previous, messages, conversation, instruction, params,
                    located, result, sheet, events, calls, sessionPatch >>

lastUserMessageRealTime == Trim(body.text)

\* AfterHistory without the empty-conversation stop
AfterHistory_NoEmptyStop(msgs) ==
    /\ messages' = msgs
    /\ conversation' = Reconcile(msgs, lastUserMessageRealTime)
    /\ response' = response /\ pc' = "classify"

\* What follows the history fetch up to the classifier call: flattening,
\* reconciliation and the empty-conversation stop
AfterHistory(msgs) ==
    /\ messages' = msgs
    /\ conversation' = Reconcile(msgs, lastUserMessageRealTime)
    /\ IF Reconcile(msgs, lastUserMessageRealTime) = NoText
       THEN response' = EmptyResponse /\ pc' = "done"
       ELSE response' = response /\ pc' = "classify"

\* fetchSessionMessages answered with a log
FetchHistory ==
    /\ pc = "fetch" /\ body.session_id
    /\ calls' = Append(calls, Call("history", TRUE, [session_id |-> TRUE]))
    /\ \E log \in Logs : AfterHistory(log)
    /\ UNCHANGED << rival, route, previous, body, instruction, params, located, result, sheet, events,
                    sessionPatch >>

\* FetchHistoryFails with the error escaping to the outer catch
FetchHistoryFails_Aborts ==
    /\ pc = "fetch" /\ body.session_id
    /\ calls' = Append(calls, Call("history", FALSE, [session_id |-> TRUE]))
    /\ response' = InternalErrorResponse /\ pc' = "done"
    /\ UNCHANGED << rival, route, previous, body, messages, conversation, instruction,
                    params, located, result, sheet, events, sessionPatch >>

\* fetchSessionMessages threw (transport error or status not OK): caught,
\* the log stays empty
FetchHistoryFails ==
    /\ pc = "fetch" /\ body.session_id
    /\ calls' = Append(calls, Call("history", FALSE, [session_id |-> TRUE]))
    /\ AfterHistory(<< >>)
    /\ UNCHANGED << rival, route, previous, body, instruction, params, located, result, sheet, events,
                    sessionPatch >>

\* No session id in the body: no fetch at all
NoSession ==
    /\ pc = "fetch" /\ ~body.session_id
    /\ AfterHistory(<< >>)
    /\ UNCHANGED << rival, route, previous, body, instruction, params, located, result, sheet, events,
                    calls, sessionPatch >>

Ev(summary, start, end) ==
    [NoEvent EXCEPT !.summary = summary, !.start = start, !.end = end]

CalendarInstructions ==
    { [NoInstruction EXCEPT !.action = "create_event",
          !.event = Ev(T_Reuniao, S_sep10_09, S_sep10_14)],
      [NoInstruction EXCEPT !.action = "create_event",
          !.event = [Ev(T_Reuniao, S_sep11_09, S_sep11_09) EXCEPT !.calendarId = M_bob]],
      [NoInstruction EXCEPT !.action = "create_event",
          !.event = Ev(T_Reuniao, S_sep10_09, NoText)],
      [NoInstruction EXCEPT !.action = "create_event",
          !.event = Ev(NoText, S_sep10_09, S_sep10_14)],
      [NoInstruction EXCEPT !.action = "create_event",
          !.event = Ev(T_Reuniao, NoText, S_sep10_14)],
      [NoInstruction EXCEPT !.action = "update_event",
          !.event = [Ev(T_Reuniao, S_sep10_14, NoText) EXCEPT !.location = T_Sala]],
      [NoInstruction EXCEPT !.action = "update_event",
          !.event = [Ev(NoText, S_sep11_09, NoText) EXCEPT !.eventId = Id_1]],
      [NoInstruction EXCEPT !.action = "update_event",
          !.event = [Ev(NoText, NoText, S_sep11_09) EXCEPT !.eventId = Id_gone]],
      [NoInstruction EXCEPT !.action = "update_event",
          !.event = Ev(T_Reuniao, S_bad, NoText)],
      [NoInstruction EXCEPT !.action = "update_event",
          !.event = Ev(NoText, S_sep10_14, NoText)],
      [NoInstruction EXCEPT !.action = "update_event",
          !.event = [NoEvent EXCEPT !.eventId = Id_1, !.attendees = << M_bob >>]],
      [NoInstruction EXCEPT !.action = "delete_event",
          !.event = [Ev(T_Reuniao, NoText, NoText) EXCEPT !.date = D_sep10]],
      [NoInstruction EXCEPT !.action = "delete_event",
          !.event = Ev(T_Reuniao, S_sep11_09, NoText)],
      [NoInstruction EXCEPT !.action = "delete_event",
          !.event = [NoEvent EXCEPT !.eventId = Id_2]],
      [NoInstruction EXCEPT !.action = "delete_event",
          !.event = [NoEvent EXCEPT !.eventId = Id_1, !.calendarId = M_ana]],
      [NoInstruction EXCEPT !.action = "delete_event"] }

\* What the classifier may answer with
Instructions == SheetInstructions \cup CalendarInstructions \cup OtherInstructions

\* getEditInstruction(conversation, sessionVars.user_phone)
ClassifierInput ==
    [conversation |-> conversation, userPhone |-> SessionVars(body).user_phone]

\* What the model answers with: any instruction, and for a request that
\* repeats the one before it the instruction it answered then
Answers == IF previous.any THEN { previous.instruction } ELSE Instructions

\* getEditInstruction returned the parsed JSON of the model's answer.  Its
\* own guard returns { action: 'error' } for an empty conversation without
\* calling the model.
Classify ==
    /\ pc = "classify"
    /\ IF Trim(conversation) = NoText
       THEN /\ instruction' = [NoInstruction EXCEPT !.action = "error"]
            /\ calls' = calls
       ELSE /\ calls' = Append(calls, Call("classify", TRUE, ClassifierInput))
            /\ \E i \in Answers : instruction' = i
    /\ pc' = "dispatch"
    /\ UNCHANGED << rival, route, previous, body, messages, conversation, params, located, result, sheet,
                    events, sessionPatch, response >>

\* getEditInstruction threw (the call failed, the answer was empty or was
\* not JSON): caught, instruction stays null
ClassifyFails ==
    /\ pc = "classify"
    /\ Trim(conversation) # NoText
    /\ calls' = Append(calls, Call("classify", FALSE, ClassifierInput))
    /\ instruction' = NoInstruction
    /\ pc' = "dispatch"
    /\ UNCHANGED << rival, route, previous, body, messages, conversation, params, located, result, sheet,
                    events, sessionPatch, response >>


\* The field a Sheets action writes
FieldOf(instr) ==
    CASE instr.action = "update_phone" -> K_telefone
      [] instr.action = "update_email" -> K_email
      [] instr.action = "update_name"  -> K_nome
      [] OTHER                         -> instr.field

\* CalendarIdOf that reads the instruction's scope only
CalendarIdOf_ExplicitOnly(instr, sv) == instr.event.calendarId

\* ev.calendarId || sessionVars.calendar_email || sessionVars.user_email || undefined
CalendarIdOf(instr, sv) ==
    IF instr.event.calendarId # NoText THEN instr.event.calendarId
    ELSE IF sv.calendar_email # NoText THEN sv.calendar_email
    ELSE sv.user_email

\* The day searched when an event is named by its summary
SearchDate(instr) ==
    IF instr.action = "update_event"
    THEN IF instr.event.date # NoText THEN instr.event.date
         ELSE Slice10(instr.event.start)
    ELSE instr.event.date

\* The patch object of update_event ("" for a field it leaves out)
PatchOf(ev) ==
    [summary     |-> ev.summary,
     description |-> ev.description,
     location    |-> ev.location,
     start       |-> ev.start,
     end         |-> ev.end,
     timeZone    |-> IF ev.start # NoText \/ ev.end # NoText
                     THEN (IF ev.timezone # NoText THEN ev.timezone ELSE DEFAULT_TZ)
                     ELSE NoText]

\* DispatchSheet without the checks of the payload
DispatchSheet_NoPayloadCheck ==
    /\ params' = [field |-> FieldOf(instruction), newValue |-> instruction.new_value,
                  identifier |-> instruction.identifier,
                  fallbackIdentity |-> FallbackIdentity(body)]
    /\ pc' = "sheet_get"
    /\ response' = response

\* The four Sheets cases up to the call of applySheetUpdate
DispatchSheet ==
    LET field  == FieldOf(instruction)
        newVal == instruction.new_value
    IN  IF instruction.action = "update_sheet_field" /\ (field = NoText \/ newVal = NoText)
        THEN Fail(<< Lit("field/new_value ausentes.") >>) /\ params' = params
        ELSE IF newVal = NoText
        THEN Fail(<< Lit("new_value ausente.") >>) /\ params' = params
        ELSE /\ params' = [field |-> field, newValue |-> newVal,
                           identifier |-> instruction.identifier,
                           fallbackIdentity |-> FallbackIdentity(body)]
             /\ pc' = "sheet_get"
             /\ response' = response

DispatchCreate ==
    LET ev == instruction.event
    IN  IF ev.start = NoText \/ ev.end = NoText \/ ev.summary = NoText
        THEN /\ Fail(<< Lit("Para create_event: summary, start e end são obrigatórios.") >>)
             /\ params' = params
        ELSE /\ params' =
                  [calendarId  |-> CalendarIdOf(instruction, SessionVars(body)),
                   requestBody |-> [summary |-> ev.summary, description |-> ev.description,
                                    location |-> ev.location, attendees |-> ev.attendees,
                                    start |-> ev.start, end |-> ev.end,
                                    timeZone |-> IF ev.timezone # NoText
                                                 THEN ev.timezone ELSE DEFAULT_TZ]]
             /\ pc' = "cal_insert"
             /\ response' = response

NotIdentified ==
    IF instruction.action = "update_event"
    THEN << Lit("Não foi possível identificar o evento para atualizar.") >>
    ELSE << Lit("Não foi possível identificar o evento para excluir.") >>

\* update_event and delete_event up to their first store call
DispatchTarget ==
    LET ev         == instruction.event
        calendarId == CalendarIdOf(instruction, SessionVars(body))
        date       == SearchDate(instruction)
        next       == IF instruction.action = "update_event" THEN "cal_patch" ELSE "cal_delete"
    IN  IF ev.eventId = NoText /\ ev.summary # NoText
        THEN IF date # NoText /\ ~IsDate(date)
             THEN Fail(<< Lit("Invalid time value") >>) /\ params' = params
             ELSE /\ params' = [calendarId |-> calendarId, q |-> ev.summary,
                                timeMin |-> IF date # NoText THEN DayStart(date) ELSE NoText,
                                timeMax |-> IF date # NoText THEN DayEnd(date) ELSE NoText,
                                maxResults |-> 5]
                  /\ pc' = "cal_list"
                  /\ response' = response
        ELSE IF ev.eventId = NoText
        THEN Fail(NotIdentified) /\ params' = params
        ELSE /\ params' = [calendarId |-> calendarId, eventId |-> ev.eventId,
                           patch |-> PatchOf(ev)]
             /\ pc' = next
             /\ response' = response

\* DispatchDefault without the throw: the switch falls through
DispatchDefault_FallsThrough ==
    Succeed(<< >>) /\ params' = params

\* default: throw new Error("Ação não reconhecida pela IA.")
DispatchDefault ==
    Fail(<< Lit("Ação não reconhecida pela IA.") >>) /\ params' = params

\* The switch on the action tag, up to the first store call of the case
Dispatch ==
    /\ pc = "dispatch"
    /\ CASE instruction.action \in SheetActions -> DispatchSheet
         [] instruction.action = "create_event" -> DispatchCreate
         [] instruction.action \in { "update_event", "delete_event" } -> DispatchTarget
         [] OTHER -> DispatchDefault
    /\ UNCHANGED << rival, route, previous, body, messages, conversation, instruction, located, result,
                    sheet, events, calls, sessionPatch >>


\* The store call the handler is waiting on at each position
PendingCall ==
    CASE pc = "sheet_get" ->
           [op |-> "sheets.get", range |-> SHEET_RANGE]
      [] pc = "sheet_update" ->
           [op |-> "sheets.update",
            range |-> CellRange(located.rowIndex, located.colIndex),
            value |-> params.newValue]
      [] pc = "cal_insert" ->
           [op |-> "calendar.insert",
            calendarId |-> CalendarOrPrimary(params.calendarId),
            requestBody |-> params.requestBody]
      [] pc = "cal_list" ->
           [op |-> "calendar.list",
            calendarId |-> CalendarOrPrimary(params.calendarId),
            q |-> params.q, timeMin |-> params.timeMin, timeMax |-> params.timeMax,
            maxResults |-> params.maxResults]
      [] pc = "cal_patch" ->
           [op |-> "calendar.patch",
            calendarId |-> CalendarOrPrimary(params.calendarId),
            eventId |-> params.eventId, patch |-> params.patch]
      [] pc = "cal_delete" ->
           [op |-> "calendar.delete",
            calendarId |-> CalendarOrPrimary(params.calendarId),
            eventId |-> params.eventId]

StorePositions ==
    { "sheet_get", "sheet_update", "cal_insert", "cal_list", "cal_patch", "cal_delete" }

\* StoreCallFails with a handler that issues a rejected store call once more
StoreCallFails_RetriesOnce ==
    /\ pc \in StorePositions
    /\ calls' = Append(calls, Call(PendingCall.op, FALSE, PendingCall))
    /\ IF calls[Len(calls)].ok
       THEN pc' = pc /\ response' = response
       ELSE \E text \in StoreErrors : Fail(StoreError(text))
    /\ UNCHANGED << rival, route, previous, body, messages, conversation, instruction,
                    params, located, result, sheet, events, sessionPatch >>

\* A store call rejects (transport, permission, quota): the error reaches
\* the catch of the dispatch
StoreCallFails ==
    /\ pc \in StorePositions
    /\ calls' = Append(calls, Call(PendingCall.op, FALSE, PendingCall))
    /\ \E text \in StoreErrors : Fail(StoreError(text))
    /\ UNCHANGED << rival, route, previous, body, messages, conversation, instruction, params, located,
                    result, sheet, events, sessionPatch >>

\* applySheetUpdate from the read of the table to the call of updateSheetCell
SheetGet ==
    /\ pc = "sheet_get"
    /\ calls' = Append(calls, Call(PendingCall.op, TRUE, PendingCall))
    /\ LET values   == ValuesGet(sheet, SHEET_RANGE)
           headers  == [i \in 1..Len(values[1]) |-> normalizeHeader(values[1][i])]
           rowIndex == findRowIndexByIdentifier(values, headers, params.identifier,
                                                params.fallbackIdentity)
           colIndex == findColumnIndexByField(headers, params.field)
       IN  IF Len(values) = 0
           THEN Fail(<< Lit("Planilha vazia ou intervalo inválido.") >>)
                /\ located' = located
           ELSE IF rowIndex < 0
           THEN Fail(<< Lit("Linha do usuário não encontrada na planilha.") >>)
                /\ located' = located
           ELSE IF colIndex < 0
           THEN Fail(<< Lit("Coluna para o campo \""), Val(params.field),
                        Lit("\" não encontrada.") >>)
                /\ located' = located
           ELSE /\ located' = [rowIndex |-> rowIndex, colIndex |-> colIndex,
                               old |-> CellAt(values, rowIndex, colIndex)]
                /\ pc' = "sheet_update"
                /\ response' = response
    /\ UNCHANGED << rival, route, previous, body, messages, conversation, instruction, params, result,
                    sheet, events, sessionPatch >>

\* The confirmation of a Sheets case
SheetSuccessText(instr, sv) ==
    CASE instr.action = "update_phone" ->
           << Lit("Pronto, "),
              Val(IF sv.user_name # NoText THEN sv.user_name ELSE T_ok),
              Lit("! Atualizei seu telefone para "), Val(instr.new_value), Lit(".") >>
      [] instr.action = "update_email" ->
           << Lit("Tudo certo! Atualizei seu e-mail para "), Val(instr.new_value), Lit(".") >>
      [] instr.action = "update_name" ->
           << Lit("Nome atualizado para "), Val(instr.new_value), Lit(".") >>
      [] OTHER ->
           << Lit("Campo \""), Val(instr.field), Lit("\" atualizado para \""),
              Val(instr.new_value), Lit("\".") >>

\* The entries a Sheets case puts into sessionPatch
SheetPatchKeys(instr) ==
    CASE instr.action = "update_phone" -> { "user_phone" }
      [] instr.action = "update_email" -> { "user_email" }
      [] instr.action = "update_name"  -> { "user_name" }
      [] OTHER ->
           LET normalized == normalizeHeader(instr.field)
           IN  (IF normalized \in { K_telefone, K_phone,
                                    << "u","s","e","r","_","p","h","o","n","e" >> }
                THEN { "user_phone" } ELSE {})
               \cup
               (IF normalized \in { K_email, << "u","s","e","r","_","e","m","a","i","l" >> }
                THEN { "user_email" } ELSE {})
               \cup
               (IF normalized \in { K_nome, K_name,
                                    << "u","s","e","r","_","n","a","m","e" >> }
                THEN { "user_name" } ELSE {})

\* SheetUpdate that leaves a cell alone when it no longer holds the value
\* applySheetUpdate read
SheetUpdate_FirstWriteWins ==
    /\ pc = "sheet_update"
    /\ calls' = Append(calls, Call(PendingCall.op, PendingCall.range.sheet = SheetTab, PendingCall))
    /\ IF PendingCall.range.sheet # SheetTab
       THEN /\ Fail(<< Lit("Unable to parse range") >>)
            /\ UNCHANGED << sheet, result, sessionPatch >>
       ELSE /\ sheet' = IF CellAt(sheet, located.rowIndex, located.colIndex) = located.old
                        THEN ValuesUpdate(sheet, PendingCall.range, params.newValue)
                        ELSE sheet
            /\ result' = [row |-> located.rowIndex + 1, col |-> located.colIndex + 1,
                          old |-> located.old, updated |-> params.newValue]
            /\ sessionPatch' = { [key |-> k, value |-> params.newValue] :
                                   k \in SheetPatchKeys(instruction) }
            /\ Succeed(SheetSuccessText(instruction, SessionVars(body)))
    /\ UNCHANGED << rival, route, previous, body, messages, conversation, instruction, params, located, events >>

\* updateSheetCell, the return of applySheetUpdate and the rest of the case
SheetUpdate ==
    /\ pc = "sheet_update"
    /\ calls' = Append(calls, Call(PendingCall.op, PendingCall.range.sheet = SheetTab, PendingCall))
    /\ IF PendingCall.range.sheet # SheetTab
       THEN /\ Fail(<< Lit("Unable to parse range") >>)
            /\ UNCHANGED << sheet, result, sessionPatch >>
       ELSE /\ sheet' = ValuesUpdate(sheet, PendingCall.range, params.newValue)
            /\ result' = [row |-> located.rowIndex + 1, col |-> located.colIndex + 1,
                          old |-> located.old, updated |-> params.newValue]
            /\ sessionPatch' = { [key |-> k, value |-> params.newValue] :
                                   k \in SheetPatchKeys(instruction) }
            /\ Succeed(SheetSuccessText(instruction, SessionVars(body)))
    /\ UNCHANGED << rival, route, previous, body, messages, conversation, instruction, params, located, events >>


LastEventId(id) == { [key |-> "last_event_id", value |-> id] }

\* createCalendarEvent and the rest of the create_event case
CalInsert ==
    /\ pc = "cal_insert"
    /\ calls' = Append(calls, Call(PendingCall.op, TRUE, PendingCall))
    /\ LET created == Inserted(events, PendingCall.calendarId, params.requestBody)
       IN  /\ events' = events \cup { created }
           /\ sessionPatch' = LastEventId(created.id)
           /\ Succeed(<< Lit("Evento criado: "), Val(created.summary), Lit(" ("),
                         Val(created.id), Lit(").") >>)
    /\ UNCHANGED << rival, route, previous, body, messages, conversation, instruction, params, located,
                    result, sheet >>

\* listCalendarEvents and the choice of matches[0]
CalList ==
    /\ pc = "cal_list"
    /\ calls' = Append(calls, Call(PendingCall.op, TRUE, PendingCall))
    /\ LET matches == EventsList(events, PendingCall.calendarId, params.q,
                                 params.timeMin, params.timeMax, params.maxResults)
       IN  IF matches = << >>
           THEN Fail(NotIdentified) /\ params' = params
           ELSE /\ params' = [calendarId |-> params.calendarId,
                              eventId |-> matches[1].id,
                              patch |-> PatchOf(instruction.event)]
                /\ pc' = IF instruction.action = "update_event"
                         THEN "cal_patch" ELSE "cal_delete"
                /\ response' = response
    /\ UNCHANGED << rival, route, previous, body, messages, conversation, instruction, located, result,
                    sheet, events, sessionPatch >>

\* patchCalendarEvent and the rest of the update_event case; the store
\* rejects an event id the calendar does not hold
CalPatch ==
    /\ pc = "cal_patch"
    /\ calls' = Append(calls, Call(PendingCall.op,
                               HasEvent(events, PendingCall.calendarId, params.eventId),
                               PendingCall))
    /\ IF ~HasEvent(events, PendingCall.calendarId, params.eventId)
       THEN Fail(<< Lit("Not Found") >>) /\ UNCHANGED << events, sessionPatch >>
       ELSE LET e       == TheEvent(events, PendingCall.calendarId, params.eventId)
                updated == Patched(e, params.patch)
            IN  /\ events' = (events \ { e }) \cup { updated }
                /\ sessionPatch' = LastEventId(updated.id)
                /\ Succeed(<< Lit("Evento atualizado: "), Val(updated.summary),
                              Lit(" ("), Val(updated.id), Lit(").") >>)
    /\ UNCHANGED << rival, route, previous, body, messages, conversation, instruction, params, located,
                    result, sheet >>

\* CalDelete with a store that accepts the delete of an event it does not hold
CalDelete_IgnoresMissing ==
    /\ pc = "cal_delete"
    /\ calls' = Append(calls, Call(PendingCall.op, TRUE, PendingCall))
    /\ events' = { e \in events : ~(e.calendarId = PendingCall.calendarId
                                    /\ e.id = params.eventId) }
    /\ sessionPatch' = LastEventId(params.eventId)
    /\ Succeed(<< Lit("Ok! Evento removido.") >>)
    /\ UNCHANGED << rival, route, previous, body, messages, conversation, instruction,
                    params, located, result, sheet >>

\* deleteCalendarEvent and the rest of the delete_event case; the store
\* rejects an event that is already gone
CalDelete ==
    /\ pc = "cal_delete"
    /\ calls' = Append(calls, Call(PendingCall.op,
                               HasEvent(events, PendingCall.calendarId, params.eventId),
                               PendingCall))
    /\ IF ~HasEvent(events, PendingCall.calendarId, params.eventId)
       THEN Fail(<< Lit("Resource has been deleted") >>)
            /\ UNCHANGED << events, sessionPatch >>
       ELSE /\ events' = events \ { TheEvent(events, PendingCall.calendarId, params.eventId) }
            /\ sessionPatch' = LastEventId(params.eventId)
            /\ Succeed(<< Lit("Ok! Evento removido.") >>)
    /\ UNCHANGED << rival, route, previous, body, messages, conversation, instruction, params, located,
                    result, sheet >>


\* ------------------------------------------------------------------------
\* The user lookup flow: POST of app/api/getUserData/route.ts
\* ------------------------------------------------------------------------

\* A request body of the lookup.  shape "invalid": req.json() throws;
\* input: whether body.input exists; text: input.text ("" when absent);
\* isString: whether input.text is a string (a JSON number is not)
UserBody == [shape |-> "object", input |-> TRUE, text |-> NoText, isString |-> TRUE]

UserBodies ==
    { [UserBody EXCEPT !.shape = "invalid"],
      [UserBody EXCEPT !.input = FALSE],
      UserBody,
      [UserBody EXCEPT !.text = P_cell, !.isString = FALSE],
      [UserBody EXCEPT !.text = P_ident],
      [UserBody EXCEPT !.text = P_fmt],
      [UserBody EXCEPT !.text = P_new],
      [UserBody EXCEPT !.text = P_short],
      [UserBody EXCEPT !.text = T_hi] }

\* const range = 'Página1!A:C'
UserRange == << "P","á","g","i","n","a","1","!","A",":","C" >>

UserBadRequest ==
    [status |-> 400,
     output |-> [text |-> "Input de texto do usuário não encontrado."]]

UserError ==
    [status |-> 500,
     output |-> [live_instructions |->
                   [conteudo |-> << Lit("Ocorreu um erro interno ao buscar seus dados.") >>]]]

UserMessage(conteudo) ==
    [status |-> 200, output |-> [live_instructions |-> [conteudo |-> << Lit(conteudo) >>]]]

\* ${row[k]} in the template: "undefined" for a cell the row does not have
TemplateCell(row, k) == IF k <= Len(row) THEN Val(row[k]) ELSE Lit("undefined")

\* row[k] in the JSON of the response: dropped when undefined
JsonCell(row, k) == IF k <= Len(row) THEN row[k] ELSE NoText

UserFound(userRow) ==
    [status |-> 200,
     output |-> [live_instructions |->
                   [conteudo |-> << Lit("### Dados do Usuário\n- **Nome:** "),
                                    TemplateCell(userRow, 1),
                                    Lit("\n- **Telefone:** "), TemplateCell(userRow, 2),
                                    Lit("\n- **Email:** "), TemplateCell(userRow, 3) >>],
                 session_variables |-> [user_email |-> JsonCell(userRow, 3),
                                        user_phone |-> JsonCell(userRow, 2),
                                        user_name  |-> JsonCell(userRow, 1)]]]

\* userPhoneKey without the slice: every digit of the input
userPhoneKey_AllDigits(phoneNumberInput) == onlyDigits(phoneNumberInput)

\* phoneNumberInput.replace(/\D/g, '').slice(-11)
userPhoneKey(phoneNumberInput) == Last11(onlyDigits(phoneNumberInput))

\* The predicate of rows.slice(1).find
UserRowMatches(row, key) ==
    /\ Last11(onlyDigits(JsonCell(row, 2))) = key
    /\ Len(key) = 11

\* rows.slice(1).find: the 1-based position in rows of the first data row
\* that matches, 0 when none does
FindUserRow(rows, key) ==
    IF \E i \in 2..Len(rows) : UserRowMatches(rows[i], key)
    THEN CHOOSE i \in 2..Len(rows) :
             /\ UserRowMatches(rows[i], key)
             /\ \A j \in 2..(i-1) : ~UserRowMatches(rows[j], key)
    ELSE 0

\* The lookup up to its read of the sheet
GetUserDataReceive ==
    /\ pc = "start"
    /\ route' = "getUserData"
    /\ \E b \in UserBodies :
         /\ body' = b
         /\ IF b.shape = "invalid" \/ ~b.input
            THEN response' = UserError /\ pc' = "done"
            ELSE IF b.text = NoText \/ ~b.isString
            THEN response' = UserBadRequest /\ pc' = "done"
            ELSE response' = response /\ pc' = "user_get"
    /\ UNCHANGED << rival, previous, messages, conversation, instruction, params,
                    located, result, sheet, events, calls, sessionPatch >>

\* The read of the sheet and the search of the row
GetUserDataRead ==
    /\ pc = "user_get"
    /\ calls' = Append(calls, Call("sheets.get", TRUE,
                                   [op |-> "sheets.get", range |-> UserRange]))
    /\ LET rows == ValuesGet(sheet, UserRange)
           hit  == FindUserRow(rows, userPhoneKey(body.text))
       IN  response' = IF Len(rows) <= 1
                       THEN UserMessage("A planilha está vazia.")
                       ELSE IF hit = 0
                       THEN UserMessage("Usuário não encontrado com este número de telefone.")
                       ELSE UserFound(rows[hit])
    /\ pc' = "done"
    /\ UNCHANGED << rival, route, previous, body, messages, conversation, instruction,
                    params, located, result, sheet, events, sessionPatch >>

\* The read of the sheet rejects: the catch answers 500
GetUserDataReadFails ==
    /\ pc = "user_get"
    /\ calls' = Append(calls, Call("sheets.get", FALSE,
                                   [op |-> "sheets.get", range |-> UserRange]))
    /\ response' = UserError
    /\ pc' = "done"
    /\ UNCHANGED << rival, route, previous, body, messages, conversation, instruction,
                    params, located, result, sheet, events, sessionPatch >>


\* ------------------------------------------------------------------------
\* The calendar listing flow: POST of app/api/getCalendarData/route.ts
\* ------------------------------------------------------------------------

\* A request body of the listing.  context, session_variables: whether
\* body.context and body.context.session_variables exist
AgendaBody == [shape |-> "object", context |-> TRUE, session_variables |-> TRUE,
               user_email |-> NoText]

AgendaBodies ==
    { [AgendaBody EXCEPT !.shape = "invalid"],
      [AgendaBody EXCEPT !.context = FALSE, !.session_variables = FALSE],
      [AgendaBody EXCEPT !.session_variables = FALSE],
      AgendaBody,
      [AgendaBody EXCEPT !.user_email = M_ana],
      [AgendaBody EXCEPT !.user_email = M_bob] }

\* (new Date()).toISOString() at the time of the request
Nows == { DayStart(D_sep10), DayStart(D_sep11), DayStart(D_sep12) }

Agenda(status, agenda) ==
    [status |-> status, output |-> [live_instructions |-> [agenda |-> agenda]]]

\* new Date(start).toLocaleString('pt-BR', { timeZone: 'America/Sao_Paulo' })
LocaleString(start) ==
    CASE start = S_sep10_09 -> "10/09/2025, 06:00:00"
      [] start = S_sep10_14 -> "10/09/2025, 11:00:00"
      [] start = S_sep11_09 -> "11/09/2025, 06:00:00"
      [] OTHER              -> "Invalid Date"

AgendaLine(event) ==
    IF event.start = NoText THEN << >>
    ELSE << Lit("- **"), Val(event.summary), Lit("**: "), Lit(LocaleString(event.start)) >>

\* response.data.items: the list, or no items field at all
Items(list)  == [present |-> TRUE, list |-> list]
NoItems      == [present |-> FALSE, list |-> << >>]

\* AgendaOf without the branch of the empty list
AgendaOf_NoEmptyCheck(items) ==
    Agenda(200, << Lit("\n### Próximos Compromissos\n") >> \o
                Join([i \in 1..Len(items.list) |-> AgendaLine(items.list[i])],
                     << Lit("\n") >>))

\* The response for the items of the list
AgendaOf(items) ==
    IF ~items.present \/ Len(items.list) = 0
    THEN Agenda(200, << Lit("Nenhum compromisso encontrado para os próximos dias.") >>)
    ELSE Agenda(200, << Lit("\n### Próximos Compromissos\n") >> \o
                     Join([i \in 1..Len(items.list) |-> AgendaLine(items.list[i])],
                          << Lit("\n") >>))

AgendaError ==
    Agenda(500, << Lit("Ocorreu um erro interno ao buscar a agenda.") >>)

\* The listing up to its call of the calendar
GetCalendarDataReceive ==
    /\ pc = "start"
    /\ route' = "getCalendarData"
    /\ \E b \in AgendaBodies :
         /\ body' = b
         /\ IF b.shape = "invalid" \/ ~b.context \/ ~b.session_variables
            THEN response' = AgendaError /\ pc' = "done"
            ELSE IF b.user_email = NoText
            THEN /\ response' = Agenda(200,
                      << Lit("E-mail do usuário não foi passado para este webhook.") >>)
                 /\ pc' = "done"
            ELSE response' = response /\ pc' = "agenda_list"
    /\ UNCHANGED << rival, previous, messages, conversation, instruction, params,
                    located, result, sheet, events, calls, sessionPatch >>

\* calendar.events.list from now on, and the agenda built from its items
GetCalendarDataList ==
    /\ pc = "agenda_list"
    /\ \E now \in Nows :
         LET request == [op |-> "calendar.list", calendarId |-> body.user_email,
                         q |-> NoText, timeMin |-> now, timeMax |-> NoText,
                         maxResults |-> 10]
             found   == EventsList(events, request.calendarId, request.q,
                                   request.timeMin, request.timeMax, request.maxResults)
         IN  /\ calls' = Append(calls, Call("calendar.list", TRUE, request))
             /\ \E items \in (IF found = << >> THEN { NoItems, Items(found) }
                                                ELSE { Items(found) }) :
                  response' = AgendaOf(items)
    /\ pc' = "done"
    /\ UNCHANGED << rival, route, previous, body, messages, conversation, instruction,
                    params, located, result, sheet, events, sessionPatch >>

\* calendar.events.list rejects: code 404 is answered 200 with the sharing
\* hint, every other error 500
GetCalendarDataListFails ==
    /\ pc = "agenda_list"
    /\ \E now \in Nows :
         calls' = Append(calls, Call("calendar.list", FALSE,
                    [op |-> "calendar.list", calendarId |-> body.user_email,
                     q |-> NoText, timeMin |-> now, timeMax |-> NoText,
                     maxResults |-> 10]))
    /\ \E code \in { 403, 404 } :
         response' = IF code = 404
                     THEN Agenda(200, << Lit("Não consegui acessar sua agenda. Verifique se ela foi compartilhada corretamente com o e-mail da Service Account.") >>)
                     ELSE AgendaError
    /\ pc' = "done"
    /\ UNCHANGED << rival, route, previous, body, messages, conversation, instruction,
                    params, located, result, sheet, events, sessionPatch >>

Next ==
    \/ Receive
    \/ FetchHistory
    \/ FetchHistoryFails
    \/ NoSession
    \/ Classify
    \/ ClassifyFails
    \/ Dispatch
    \/ StoreCallFails
    \/ SheetGet
    \/ SheetUpdate
    \/ CalInsert
    \/ CalList
    \/ CalPatch
    \/ CalDelete
    \/ GetUserDataReceive
    \/ GetUserDataRead
    \/ GetUserDataReadFails
    \/ GetCalendarDataReceive
    \/ GetCalendarDataList
    \/ GetCalendarDataListFails

Spec == Init /\ [][Next]_vars


\* ------------------------------------------------------------------------
\* Two requests, one after the other, against the same stores
\* ------------------------------------------------------------------------

StoreOps == { "sheets.get", "sheets.update", "calendar.insert", "calendar.list",
              "calendar.patch", "calendar.delete" }

\* The handler has answered and the next request arrives: a new invocation
\* of a route, which shares nothing with the one before but the stores.
\* The request repeats what the one before asked for.
NextRequest ==
    /\ pc = "done" /\ ~previous.any
    /\ previous' = [any |-> TRUE, instruction |-> instruction,
                    calls |-> SelectSeq(calls, LAMBDA c : c.op \in StoreOps),
                    replayed |-> None]
    /\ route' = ""
    /\ pc' = "start"
    /\ body' = EmptyBody
    /\ messages' = << >>
    /\ conversation' = NoText
    /\ instruction' = NoInstruction
    /\ params' = None
    /\ located' = None
    /\ result' = None
    /\ calls' = << >>
    /\ sessionPatch' = {}
    /\ response' = None
    /\ UNCHANGED << rival, sheet, events >>

\* The directory of the session runs
InitSession == Init /\ sheet = DefaultSheet

NextSession == Next \/ NextRequest

SpecSession == InitSession /\ [][NextSession]_vars


\* ------------------------------------------------------------------------
\* Two edit requests at the same time: a second invocation of the handler
\* runs applySheetUpdate while the first one is inside its own
\* ------------------------------------------------------------------------

\* What the classifier answered the second request with
RivalInstructions ==
    { [NoInstruction EXCEPT !.action = "update_phone", !.new_value = P_fmt,
                            !.identifier = ById(P_cell)],
      [NoInstruction EXCEPT !.action = "update_email", !.new_value = M_bob],
      [NoInstruction EXCEPT !.action = "update_name", !.new_value = T_Bob,
                            !.identifier = [key |-> H_Nome, value |-> T_Bob]] }

\* The second request of the session, carrying the same session variables,
\* reaches the call of applySheetUpdate while the first one is awaiting
\* the read of the table: the handler holds no lock and nothing serializes
\* the requests of a session, so the reads and writes of the two fall in
\* any order
RivalArrives ==
    /\ rival.pc = "idle"
    /\ route = "editData" /\ pc = "sheet_get"
    /\ body.session_id
    /\ \E i \in RivalInstructions :
         rival' = [NoRival EXCEPT
                      !.pc = "sheet_get",
                      !.instruction = i,
                      !.params = [field |-> FieldOf(i), newValue |-> i.new_value,
                                  identifier |-> i.identifier,
                                  fallbackIdentity |-> FallbackIdentity(body)]]
    /\ UNCHANGED << route, previous, pc, body, messages, conversation, instruction,
                    params, located, result, sheet, events, calls, sessionPatch,
                    response >>

RivalFail(call, message) ==
    rival' = [rival EXCEPT !.pc = "done",
                           !.calls = Append(@, call),
                           !.response = EditResponse(FailureText(message))]

\* applySheetUpdate of the second request from the read of the table to
\* the call of updateSheetCell
RivalSheetGet ==
    /\ rival.pc = "sheet_get"
    /\ LET call     == Call("sheets.get", TRUE, [op |-> "sheets.get", range |-> SHEET_RANGE])
           values   == ValuesGet(sheet, SHEET_RANGE)
           headers  == [i \in 1..Len(values[1]) |-> normalizeHeader(values[1][i])]
           rowIndex == findRowIndexByIdentifier(values, headers, rival.params.identifier,
                                                rival.params.fallbackIdentity)
           colIndex == findColumnIndexByField(headers, rival.params.field)
       IN  IF Len(values) = 0
           THEN RivalFail(call, << Lit("Planilha vazia ou intervalo inválido.") >>)
           ELSE IF rowIndex < 0
           THEN RivalFail(call, << Lit("Linha do usuário não encontrada na planilha.") >>)
           ELSE IF colIndex < 0
           THEN RivalFail(call, << Lit("Coluna para o campo \""), Val(rival.params.field),
                                   Lit("\" não encontrada.") >>)
           ELSE rival' = [rival EXCEPT
                             !.pc = "sheet_update",
                             !.calls = Append(@, call),
                             !.located = [rowIndex |-> rowIndex, colIndex |-> colIndex,
                                          old |-> CellAt(values, rowIndex, colIndex)]]
    /\ UNCHANGED << route, previous, pc, body, messages, conversation, instruction,
                    params, located, result, sheet, events, calls, sessionPatch,
                    response >>

\* updateSheetCell of the second request and the rest of its case
RivalSheetUpdate ==
    /\ rival.pc = "sheet_update"
    /\ LET range == CellRange(rival.located.rowIndex, rival.located.colIndex)
           req   == [op |-> "sheets.update", range |-> range,
                     value |-> rival.params.newValue]
       IN  IF range.sheet # SheetTab
           THEN /\ RivalFail(Call("sheets.update", FALSE, req),
                             << Lit("Unable to parse range") >>)
                /\ sheet' = sheet
           ELSE /\ sheet' = ValuesUpdate(sheet, range, rival.params.newValue)
                /\ rival' = [rival EXCEPT
                                !.pc = "done",
                                !.calls = Append(@, Call("sheets.update", TRUE, req)),
                                !.response = EditResponse(
                                    SheetSuccessText(rival.instruction,
                                                     SessionVars(body)))]
    /\ UNCHANGED << route, previous, pc, body, messages, conversation, instruction,
                    params, located, result, events, calls, sessionPatch, response >>

\* A Sheets call of the second request rejects
RivalStoreCallFails ==
    /\ rival.pc \in { "sheet_get", "sheet_update" }
    /\ RivalFail(Call(IF rival.pc = "sheet_get" THEN "sheets.get" ELSE "sheets.update",
                      FALSE, [op |-> rival.pc]),
                 StoreError("The caller does not have permission"))
    /\ UNCHANGED << route, previous, pc, body, messages, conversation, instruction,
                    params, located, result, sheet, events, calls, sessionPatch,
                    response >>

\* The directories of the race: one user, two users, one user listed twice
RaceSheets == { DefaultSheet,
                << HeaderRow, Row_Ana, Row_Bob >>,
                << HeaderRow, Row_Ana, Row_Ana >> }

InitRace == Init /\ events = DefaultEvents /\ sheet \in RaceSheets

NextRace ==
    \/ Next
    \/ RivalArrives
    \/ RivalSheetGet
    \/ RivalSheetUpdate
    \/ RivalStoreCallFails

SpecRace == InitRace /\ [][NextRace]_vars


\* ------------------------------------------------------------------------
\* A request that updated the directory is sent again unchanged
\* ------------------------------------------------------------------------

\* The handler has confirmed an update of the directory and the same request
\* arrives again: the same body, answered by the classifier with the same
\* instruction, against the table as the first execution left it.  The
\* handler keeps nothing between the two.
Replay ==
    /\ pc = "done" /\ ~previous.any
    /\ route = "editData" /\ result # None
    /\ previous' = [any |-> TRUE, instruction |-> instruction,
                    calls |-> SelectSeq(calls, LAMBDA c : c.op \in StoreOps),
                    replayed |-> [body |-> body, sheet |-> sheet, located |-> located]]
    /\ route' = ""
    /\ pc' = "start"
    /\ body' = EmptyBody
    /\ messages' = << >>
    /\ conversation' = NoText
    /\ instruction' = NoInstruction
    /\ params' = None
    /\ located' = None
    /\ result' = None
    /\ calls' = << >>
    /\ sessionPatch' = {}
    /\ response' = None
    /\ UNCHANGED << rival, sheet, events >>

InitReplay == Init /\ events = DefaultEvents /\ sheet \in RaceSheets

NextReplay == Next \/ Replay

SpecReplay == InitReplay /\ [][NextReplay]_vars


\* ------------------------------------------------------------------------
\* Properties of the edit flow
\* ------------------------------------------------------------------------

CallsOf(ops) == { i \in 1..Len(calls) : calls[i].op \in ops }

\* The handler is past the reconciliation of the transcript
Reconciled ==
    route = "editData" /\ body.shape = "object" /\ pc \notin { "start", "fetch" }

\* The handler is past the switch on the action tag
Dispatched == Reconciled /\ pc \notin { "classify", "dispatch" } /\ response # EmptyResponse

OutputText == response.output.live_instructions

\* C1: whenever the reconciled transcript is empty the classifier is never
\* invoked, no store call is made, and the response is the fixed "could not
\* retrieve history" message with status 200.
C1_EmptyTranscriptSkipsClassifier ==
    (Reconciled /\ conversation = NoText) =>
        /\ pc = "done"
        /\ CallsOf({ "classify" } \cup StoreOps) = {}
        /\ response = EmptyResponse
        /\ response.status = 200
        /\ response.output.responses[1].texts = << EmptyHistoryMessage >>

\* C1 witness: a session whose log has turns but no line of text, and no
\* live text, answered with the fallback
C1_Witness ==
    /\ pc = "done" /\ response = EmptyResponse
    /\ messages # << >> /\ body.text = NoText


LastLine(text) == Lines(text)[Len(Lines(text))]

\* C2: for every history log and every non-empty live text, if the final
\* line of the flattened transcript is exactly "U: <liveText>" the transcript
\* is returned unchanged; in every other case exactly one line
\* "U: <liveText>" is appended as the new final line.
C2_AppendUnlessFinalLineIsLiveText ==
    (Reconciled /\ lastUserMessageRealTime # NoText) =>
        LET flat   == buildPlainConversation(messages)
            target == UserLine(lastUserMessageRealTime)
        IN  IF flat # NoText /\ LastLine(flat) = target
            THEN conversation = flat
            ELSE Lines(conversation) = Append(Lines(flat), target)

\* C3: whenever the instruction is missing or its action tag is outside the
\* seven recognized actions, no row-store or event-store call is made, the
\* response is the generic "could not execute" message, and the status is 200.
C3_UnrecognizedActionTouchesNoStore ==
    (Dispatched /\ instruction.action \notin KnownActions) =>
        /\ pc = "done"
        /\ CallsOf(StoreOps) = {}
        /\ response.status = 200
        /\ OutputText = << Lit(FailurePrefix), Lit(" Detalhe: "),
                           Lit("Ação não reconhecida pela IA.") >>

\* C3 witness: the classifier call threw, and the request was answered
C3_Witness ==
    /\ Dispatched /\ pc = "done"
    /\ instruction = NoInstruction
    /\ \E i \in CallsOf({ "classify" }) : ~calls[i].ok

\* The match C4 describes
Last11Matches(header, cell, value) ==
    IF Includes(header, K_telefone) \/ Includes(header, K_phone)
    THEN Last11(onlyDigits(value)) = Last11(onlyDigits(cell))
    ELSE ToLower(Trim(cell)) = ToLower(Trim(value))

\* applySheetUpdate has read the table and resolved (or failed to resolve)
\* the row for an explicit identifier alone, its column being a header
ResolvedByIdentifierAlone ==
    /\ Dispatched /\ instruction.action \in SheetActions
    /\ params # None
    /\ pc \in { "sheet_update", "done" }
    /\ \E i \in CallsOf({ "sheets.get" }) : calls[i].ok
    /\ Len(Candidates(params.identifier, params.fallbackIdentity)) = 1
    /\ params.identifier.key # NoText
    /\ sheet # << >>
    /\ HeaderIndex([i \in 1..Len(sheet[1]) |-> normalizeHeader(sheet[1][i])],
                   normalizeHeader(params.identifier.key)) >= 0

RowNotFound ==
    /\ pc = "done"
    /\ OutputText = FailureText(<< Lit("Linha do usuário não encontrada na planilha.") >>)

\* C4: in a phone-type column a candidate value matches a cell exactly when
\* the last 11 digits of both agree, and in every other column when the
\* trimmed, lower-cased strings are equal: the row resolved is the first
\* whose cell matches so, and resolution fails only when no cell does.
C4_PhoneMatchesOnLast11Digits ==
    ResolvedByIdentifierAlone =>
        LET values  == ValuesGet(sheet, SHEET_RANGE)
            headers == [i \in 1..Len(values[1]) |-> normalizeHeader(values[1][i])]
            col     == HeaderIndex(headers, normalizeHeader(params.identifier.key))
            hit(i)  == Last11Matches(headers[col + 1],
                                     IF located # None /\ located.rowIndex = i
                                        /\ located.colIndex = col /\ pc = "done"
                                     THEN located.old
                                     ELSE CellAt(values, i, col),
                                     params.identifier.value)
        IN  IF RowNotFound
            THEN \A i \in 1..(Len(values) - 1) : ~hit(i)
            ELSE located # None =>
                   /\ hit(located.rowIndex)
                   /\ \A j \in 1..(located.rowIndex - 1) : ~hit(j)


AllCallsOk == \A i \in 1..Len(calls) : calls[i].ok

\* The instruction of the end-to-end scenario
ScenarioInstruction ==
    [NoInstruction EXCEPT !.action = "update_phone", !.new_value = P_new,
                          !.identifier = ById(P_ident)]

NoSessionIdentity ==
    FallbackIdentity(body) = [email |-> NoText, phone |-> NoText, name |-> NoText]

\* The table read by the request held a row whose "Telefone" cell was v:
\* the row is still there, or it is the row the request has overwritten
HeldPhone(v) ==
    \/ \E i \in 2..Len(sheet) : CellAt(sheet, i - 1, 1) = v
    \/ located # None /\ located.colIndex = 1 /\ located.old = v

\* C5: an edit request whose instruction is update_phone with new_value
\* +5511999998888 and identifier {telefone, +5511988887777}, against a table
\* holding a row whose phone cell is 11988887777 and with no session identity,
\* ends with that row's phone cell equal to +5511999998888 and a response
\* confirming the new number.
C5_ScenarioUpdatesThePhone ==
    ( /\ pc = "done" /\ Dispatched
      /\ instruction = ScenarioInstruction
      /\ NoSessionIdentity
      /\ AllCallsOk
      /\ sheet # << >> /\ sheet[1] = HeaderRow
      /\ HeldPhone(P_cell) ) =>
        /\ located # None
        /\ located.old = P_cell
        /\ CellAt(sheet, located.rowIndex, located.colIndex) = P_new
        /\ OutputText = << Lit("Pronto, "), Val(T_ok),
                           Lit("! Atualizei seu telefone para "), Val(P_new), Lit(".") >>

\* C6: for every table that has a header row and zero data rows,
\* applyFieldUpdate fails with the EmptyTable error (not with RecordNotFound
\* or any other kind) and issues no write to the row-store.
C6_HeaderOnlyTableIsEmptyTable ==
    ( /\ pc = "done" /\ Dispatched
      /\ instruction.action \in SheetActions
      /\ \E i \in CallsOf({ "sheets.get" }) : calls[i].ok
      /\ Len(ValuesGet(sheet, SHEET_RANGE)) = 1 ) =>
        /\ OutputText = FailureText(<< Lit("Planilha vazia ou intervalo inválido.") >>)
        /\ CallsOf({ "sheets.update" }) = {}

\* C7: after a successful applyFieldUpdate of field F to value V, reading
\* the whole table back yields V at exactly the (row, column) coordinate that
\* the update resolved and reported.
C7_WriteThenReadBack ==
    (pc = "done" /\ result # None) =>
        /\ result.row = located.rowIndex + 1
        /\ result.col = located.colIndex + 1
        /\ result.updated = params.newValue
        /\ CellAt(ValuesGet(sheet, SHEET_RANGE), result.row - 1, result.col - 1)
             = params.newValue

\* C7 witness: a successful update of the third column of the second data row
C7_Witness ==
    /\ pc = "done" /\ result # None
    /\ result.row = 3 /\ result.col = 3
    /\ result.old # result.updated

\* The session-variable patch a response carries
ResponsePatch ==
    IF "session_variables" \in DOMAIN response.output
    THEN response.output.session_variables
    ELSE IF "context" \in DOMAIN response /\ "session_variables" \in DOMAIN response.context
    THEN response.context.session_variables
    ELSE {}

IdentityKey(action) ==
    CASE action = "update_phone" -> "user_phone"
      [] action = "update_email" -> "user_email"
      [] action = "update_name"  -> "user_name"

\* C8: after every successful update_phone, update_email or update_name the
\* response carries a session-variable patch setting the corresponding
\* identity field to the new value, together with a confirmation message
\* naming the new value.
C8_ResponseCarriesSessionPatch ==
    ( /\ pc = "done" /\ result # None
      /\ instruction.action \in { "update_phone", "update_email", "update_name" } ) =>
        /\ [key |-> IdentityKey(instruction.action), value |-> instruction.new_value]
             \in ResponsePatch
        /\ \E k \in 1..Len(OutputText) : OutputText[k] = Val(instruction.new_value)

\* A request whose dispatch threw: no case ran to its end (a Sheets case
\* ends by setting result, a calendar case by setting last_event_id)
DispatchFailed ==
    /\ Dispatched /\ pc = "done"
    /\ result = None /\ sessionPatch = {}

\* C9: every failure raised inside the action dispatch (store error, missing
\* required field, row, column or event not found) ends in an HTTP 200
\* response carrying an explanatory message; a 5xx is never produced by a
\* dispatch failure.
C9_DispatchFailureIsHttp200 ==
    /\ DispatchFailed =>
          /\ response.status = 200
          /\ DOMAIN response.output = { "live_instructions" }
          /\ Len(OutputText) >= 1
          /\ OutputText[1] = Lit(FailurePrefix)
    /\ (pc = "done" /\ response.status >= 500) => ~Dispatched

\* C9 witness: a store call of the dispatch threw and the request was answered
C9_Witness ==
    /\ DispatchFailed
    /\ \E i \in CallsOf(StoreOps) : ~calls[i].ok
    /\ response.status = 200

\* C10: when a row-store or event-store call fails during the dispatch, the
\* response body does not depend on the store's error text: the response is
\* the one the same request gets when the store raises any other text.
C10_ResponseIndependentOfStoreError ==
    ( /\ DispatchFailed
      /\ \E i \in CallsOf(StoreOps) : ~calls[i].ok ) =>
        \A text \in StoreErrors :
            response = EditResponse(FailureText(StoreError(text)))


\* An instruction without a payload field its action requires
MissingPayload(instr) ==
    \/ instr.action \in SheetActions /\ instr.new_value = NoText
    \/ instr.action = "update_sheet_field" /\ instr.field = NoText
    \/ /\ instr.action = "create_event"
       /\ \/ instr.event.summary = NoText
          \/ instr.event.start = NoText
          \/ instr.event.end = NoText

BadInstructionTexts ==
    { FailureText(<< Lit("new_value ausente.") >>),
      FailureText(<< Lit("field/new_value ausentes.") >>),
      FailureText(<< Lit("Para create_event: summary, start e end são obrigatórios.") >>) }

\* C11: a Sheets action whose instruction lacks new_value (or field, for
\* update_sheet_field) and a create_event lacking summary, start or end fail
\* before any row-store or event-store call: no read and no write is issued.
C11_MissingPayloadFailsBeforeStore ==
    (Dispatched /\ MissingPayload(instruction)) =>
        /\ pc = "done"
        /\ CallsOf(StoreOps) = {}
        /\ result = None /\ sessionPatch = {}
        /\ OutputText \in BadInstructionTexts

\* C11 witness: an update_sheet_field that names its value but no field
C11_Witness ==
    /\ Dispatched /\ pc = "done"
    /\ instruction.action = "update_sheet_field"
    /\ instruction.field = NoText /\ instruction.new_value # NoText
    /\ OutputText = FailureText(<< Lit("field/new_value ausentes.") >>)

CalendarOps == { "calendar.insert", "calendar.list", "calendar.patch", "calendar.delete" }

RECURSIVE FirstNonEmpty(_)
FirstNonEmpty(texts) ==
    IF texts = << >> THEN NoText
    ELSE IF texts[1] # NoText THEN texts[1]
    ELSE FirstNonEmpty(Tail(texts))

\* C12: in every event-store call of a calendar action (the search that
\* resolves an event included) the calendar scope is the first non-empty of
\* the instruction's scope, the session calendar scope and the session user
\* email, and otherwise "primary".
C12_CalendarScopeOrder ==
    (Dispatched /\ instruction.action \in CalendarActions) =>
        \A i \in CallsOf(CalendarOps) :
            calls[i].request.calendarId =
                FirstNonEmpty(<< instruction.event.calendarId,
                                 SessionVars(body).calendar_email,
                                 SessionVars(body).user_email,
                                 C_primary >>)

\* C12 witness: an event created under the session user email, the
\* instruction and the session naming no calendar
C12_Witness ==
    /\ Dispatched /\ pc = "done"
    /\ instruction.event.calendarId = NoText
    /\ SessionVars(body).calendar_email = NoText
    /\ \E i \in CallsOf({ "calendar.insert" }) :
          calls[i].ok /\ calls[i].request.calendarId = M_bob


\* ------------------------------------------------------------------------
\* Properties of the lookup flows
\* ------------------------------------------------------------------------

\* A user lookup whose body carries no input.text, or no input at all
UserInputMissing ==
    /\ route = "getUserData" /\ body.shape = "object"
    /\ ~body.input \/ body.text = NoText

\* A calendar listing whose body carries no user_email, or no context at all
AgendaInputMissing ==
    /\ route = "getCalendarData" /\ body.shape = "object"
    /\ ~body.context \/ body.user_email = NoText

\* An edit request that carries no live text and has no transcript either
EditInputMissing ==
    /\ Reconciled /\ body.text = NoText /\ conversation = NoText

\* C13: a request missing its required input is answered with HTTP 400 and
\* a user-facing message in the user lookup (no input.text, or no input) and
\* in the calendar listing (no user_email, or no context), and with HTTP 200
\* and an explanatory message in the edit flow.
C13_MissingInputStatus ==
    pc = "done" =>
        /\ UserInputMissing =>
             /\ response.status = 400
             /\ response.output = [text |-> "Input de texto do usuário não encontrado."]
        /\ AgendaInputMissing =>
             /\ response.status = 400
             /\ response.output.live_instructions.agenda # << >>
        /\ EditInputMissing =>
             /\ response.status = 200
             /\ response.output.responses[1].texts = << EmptyHistoryMessage >>

\* The events of the calendar that end after `now`
Upcoming(store, calendarId, now) ==
    { e \in store : e.calendarId = calendarId /\ InstantRank(e.end) > InstantRank(now) }

\* The listing has called the calendar and was answered
Listed ==
    /\ route = "getCalendarData" /\ pc = "done"
    /\ body.shape = "object" /\ body.context /\ body.user_email # NoText
    /\ calls # << >> /\ calls[Len(calls)].ok

Width(grid) ==
    LET lens == { Len(grid[i]) : i \in 1..Len(grid) } \cup { 0 }
    IN  CHOOSE w \in lens : \A v \in lens : v <= w

\* Two grids agree on every cell but (row, col), 0-based
SameButCell(old, new, row, col) ==
    \A i \in 0..(Len(old) + Len(new)) : \A j \in 0..(Width(old) + Width(new)) :
        (i # row \/ j # col) => CellAt(new, i, j) = CellAt(old, i, j)

\* C15: applySheetUpdate changes at most one cell of the table: on success
\* exactly the cell at the resolved (row, column) is overwritten with the new
\* value and every other cell, the header row included, is unchanged; when it
\* fails (table empty, row not found, column not found) no write is issued
\* and the table is unchanged.
C15_UpdateWritesOneCell ==
    [][ /\ (result = None /\ result' # None) =>
              /\ CellAt(sheet', located.rowIndex, located.colIndex) = params.newValue
              /\ SameButCell(sheet, sheet', located.rowIndex, located.colIndex)
              /\ located.rowIndex >= 1
              /\ Cardinality({ i \in 1..Len(calls') : calls'[i].op = "sheets.update" }) = 1
        /\ (pc = "sheet_get" /\ pc' = "done") =>
              /\ sheet' = sheet
              /\ \A i \in 1..Len(calls') : calls'[i].op # "sheets.update"
        /\ sheet' # sheet => (result = None /\ result' # None)
      ]_vars

\* C15 witness: a successful update in a table of two data rows
C15_Witness ==
    /\ route = "editData" /\ pc = "done" /\ result # None
    /\ Len(sheet) = 3
    /\ \E i \in CallsOf({ "sheets.update" }) : calls[i].ok


\* applySheetUpdate has just read a table that is not empty: the handler is
\* about to write, or has failed on the row or the column
TableRead ==
    /\ route = "editData" /\ params # None
    /\ calls # << >>
    /\ calls[Len(calls)].op = "sheets.get" /\ calls[Len(calls)].ok
    /\ Len(ValuesGet(sheet, SHEET_RANGE)) >= 1

HeadersRead == 
    LET values == ValuesGet(sheet, SHEET_RANGE)
    IN  [i \in 1..Len(values[1]) |-> normalizeHeader(values[1][i])]

\* The candidates in the order of C16; given: whether the request carries it
OrderedCandidates ==
    LET id == params.identifier
        fb == params.fallbackIdentity
    IN  << [key |-> normalizeHeader(id.key), value |-> id.value,
            given |-> id.key # NoText /\ id.value # NoText],
           [key |-> K_email,    value |-> fb.email, given |-> fb.email # NoText],
           [key |-> K_telefone, value |-> fb.phone, given |-> fb.phone # NoText],
           [key |-> K_phone,    value |-> fb.phone, given |-> fb.phone # NoText],
           [key |-> K_nome,     value |-> fb.name,  given |-> fb.name # NoText] >>

\* The data rows (0-based, from 1) a candidate matches in its column
RowsMatching(cand) ==
    LET values  == ValuesGet(sheet, SHEET_RANGE)
        headers == HeadersRead
        col     == HeaderIndex(headers, cand.key)
        header  == headers[col + 1]
    IN  IF ~cand.given \/ col < 0 THEN {}
        ELSE { i \in 1..(Len(values) - 1) :
                 CellMatches(header, CellAt(values, i, col), cand.value) }

\* The row C16 describes: the first row of the first candidate that has one
RowByOrder ==
    LET winners == { k \in 1..Len(OrderedCandidates) :
                       RowsMatching(OrderedCandidates[k]) # {} }
    IN  IF winners = {} THEN -1
        ELSE LET k    == CHOOSE w \in winners : \A v \in winners : w <= v
                 rows == RowsMatching(OrderedCandidates[k])
             IN  CHOOSE r \in rows : \A q \in rows : r <= q

ColumnNotFound ==
    /\ pc = "done"
    /\ OutputText = FailureText(<< Lit("Coluna para o campo \""), Val(params.field),
                                   Lit("\" não encontrada.") >>)

\* C16: row resolution tries the explicit identifier, then the fallback
\* email, phone and name; the result is the first data row matched by the
\* first candidate whose key is a header column and whose value matches some
\* row, and it is NotFound, not an exception, when no candidate matches.
C16_CandidateOrder ==
    TableRead =>
        LET row == RowByOrder
        IN  IF row < 0
            THEN RowNotFound /\ located = None
            ELSE \/ pc = "sheet_update" /\ located.rowIndex = row
                 \/ ColumnNotFound /\ located = None

\* C16 witness: the identifier, the session email and the session phone
\* match no row, and the row is resolved by the session name
C16_Witness ==
    /\ TableRead /\ pc = "sheet_update"
    /\ \A k \in 1..4 : OrderedCandidates[k].given
                       /\ RowsMatching(OrderedCandidates[k]) = {}
    /\ RowsMatching(OrderedCandidates[5]) # {}
    /\ located.rowIndex = RowByOrder


\* The members of the alias groups that hold the wanted field
GroupOf(wanted) ==
    UNION { { AliasOf(AliasKeys[k])[a] : a \in 1..Len(AliasOf(AliasKeys[k])) } :
              k \in { g \in 1..Len(AliasKeys) :
                        \E a \in 1..Len(AliasOf(AliasKeys[g])) :
                            AliasOf(AliasKeys[g])[a] = wanted } }

\* C17: column resolution returns the header equal to the normalized wanted
\* field when there is one; otherwise a wanted field that is a member of an
\* alias group resolves to a column whose header is a member of the same
\* group, whichever member it is (wanted "phone" finds header "telefone" as
\* wanted "telefone" finds header "phone"); a field outside every group with
\* no equal header is NotFound.
C17_AliasesResolveBothWays ==
    (TableRead /\ RowByOrder >= 0 /\ params.field # NoText) =>
        LET wanted == normalizeHeader(params.field)
            exact  == HeaderIndex(HeadersRead, wanted)
            cols   == { j \in 0..(Len(HeadersRead) - 1) :
                          HeadersRead[j + 1] \in GroupOf(wanted) }
        IN  IF exact >= 0
            THEN pc = "sheet_update" /\ located.colIndex = exact
            ELSE IF cols # {}
            THEN pc = "sheet_update" /\ located.colIndex \in cols
            ELSE ColumnNotFound


\* ------------------------------------------------------------------------
\* Properties of the transcript
\* ------------------------------------------------------------------------

\* The text of a turn: the text of a user turn, the non-empty fragments of an
\* agent turn joined by a space, nothing for any other entry of the log
TurnText(m) ==
    IF m.event = "message:received" THEN m.text
    ELSE IF m.event = "message:brain_send"
    THEN Join(SelectSeq([i \in 1..Len(m.responses) |->
                            IF m.responses[i].text # NoText
                            THEN m.responses[i].text
                            ELSE Join(m.responses[i].texts, << " " >>)],
                        LAMBDA t : t # NoText),
              << " " >>)
    ELSE NoText

\* One line per turn that has a text, in log order
RECURSIVE FlattenedLines(_)
FlattenedLines(msgs) ==
    IF msgs = << >> THEN << >>
    ELSE (IF TurnText(msgs[1]) = NoText THEN << >>
          ELSE << (IF msgs[1].event = "message:received"
                   THEN << "U", ":", " " >> ELSE << "A", ":", " " >>)
                  \o TurnText(msgs[1]) >>)
         \o FlattenedLines(Tail(msgs))

\* C18: flattening the history log gives one line per turn in log order,
\* "U: <text>" for a user turn and "A: <text>" for an agent turn with its
\* fragments joined by a space, and drops every turn that has no text: a user
\* turn with an empty or absent text and an agent turn with no non-empty
\* fragment contribute no line.
C18_FlattenDropsEmptyTurns ==
    (Reconciled /\ lastUserMessageRealTime = NoText) =>
        conversation = Trim(Join(FlattenedLines(messages), << "\n" >>))

HistoryFailed ==
    /\ route = "editData" /\ calls # << >>
    /\ calls[1].op = "history" /\ ~calls[1].ok

\* C19: a failed history fetch never aborts the edit request: the log is
\* empty, so with a live text the transcript handed to the classifier is
\* exactly "U: <liveText>", and without one the empty-transcript fallback is
\* returned.
C19_FailedHistoryFailsSoft ==
    HistoryFailed =>
        /\ messages = << >>
        /\ pc = "done" => response.status = 200
        /\ IF lastUserMessageRealTime # NoText
           THEN /\ conversation = UserLine(lastUserMessageRealTime)
                /\ pc # "classify" => CallsOf({ "classify" }) # {}
                /\ \A i \in CallsOf({ "classify" }) :
                     calls[i].request.conversation = UserLine(lastUserMessageRealTime)
           ELSE /\ pc = "done" /\ response = EmptyResponse
                /\ CallsOf({ "classify" }) = {}

\* C19 witness: the fetch failed, and the classifier was called with the
\* live text alone
C19_Witness ==
    /\ HistoryFailed /\ pc = "done"
    /\ \E i \in CallsOf({ "classify" }) :
         calls[i].ok /\ calls[i].request.conversation = UserLine(T_hi)


\* ------------------------------------------------------------------------
\* Properties of the event-store
\* ------------------------------------------------------------------------

\* The request before this one deleted the event this one is about to delete
DeletedJustBefore ==
    /\ previous.any
    /\ \E i \in 1..Len(previous.calls) :
         /\ previous.calls[i].op = "calendar.delete" /\ previous.calls[i].ok
         /\ previous.calls[i].request.calendarId = PendingCall.calendarId
         /\ previous.calls[i].request.eventId = params.eventId

RemovedText == << Lit("Ok! Evento removido.") >>

\* C20: of two delete_event requests for the same event id that run one
\* after the other, the first removes the event and reports success, the
\* second finds the event gone and reports the failure message, never a
\* success, and neither changes any other event.
C20_SecondDeleteFails ==
    [][ (pc = "cal_delete" /\ pc' = "done") =>
          LET last   == calls'[Len(calls')]
              target == { e \in events : /\ e.calendarId = PendingCall.calendarId
                                         /\ e.id = params.eventId }
          IN  /\ last.op = "calendar.delete"
              /\ last.ok =>
                   /\ target # {}
                   /\ events' = events \ target
                   /\ response' = EditResponse(RemovedText)
              /\ DeletedJustBefore =>
                   /\ ~last.ok
                   /\ events' = events
                   /\ response'.status = 200
                   /\ response'.output.live_instructions[1] = Lit(FailurePrefix)
                   /\ response' # EditResponse(RemovedText)
      ]_vars

\* C20 witness: the request before deleted an event of the calendar, and the
\* same delete, asked again, has failed
C20_Witness ==
    /\ previous.any /\ route = "editData" /\ pc = "done"
    /\ \E i \in 1..Len(previous.calls) : \E j \in CallsOf({ "calendar.delete" }) :
         /\ previous.calls[i].op = "calendar.delete" /\ previous.calls[i].ok
         /\ calls[j].request = previous.calls[i].request
         /\ ~calls[j].ok
    /\ OutputText = FailureText(<< Lit("Resource has been deleted") >>)


\* ------------------------------------------------------------------------
\* Properties of the calendar cases
\* ------------------------------------------------------------------------

\* The day the search is said to cover: the payload's date or, when it has
\* none, the date part of the payload's start
ClaimedSearchDate(instr) ==
    IF instr.event.date # NoText THEN instr.event.date
    ELSE Slice10(instr.event.start)

\* The request names the event to update or delete by its summary
TargetBySummary ==
    /\ Dispatched
    /\ instruction.action \in { "update_event", "delete_event" }
    /\ instruction.event.eventId = NoText

\* The summary search of the claimed day against the events as they are
DayMatches ==
    EventsList(events,
               CalendarOrPrimary(CalendarIdOf(instruction, SessionVars(body))),
               instruction.event.summary,
               DayStart(ClaimedSearchDate(instruction)),
               DayEnd(ClaimedSearchDate(instruction)), 5)

\* C21: for update_event and delete_event without an explicit event id the
\* target is the first event of a summary search in the one-day window of
\* the payload's date or, when absent, of the date part of its start; with
\* no match the action fails as event-not-found and no patch or delete call
\* is made.
C21_TargetIsFirstMatchOfTheDay ==
    TargetBySummary =>
        /\ instruction.event.summary = NoText =>
             /\ CallsOf(CalendarOps) = {}
             /\ response = EditResponse(FailureText(NotIdentified))
        /\ (instruction.event.summary # NoText
            /\ IsDate(ClaimedSearchDate(instruction))) =>
             /\ \A i \in CallsOf({ "calendar.list" }) :
                  /\ calls[i].request.q = instruction.event.summary
                  /\ calls[i].request.timeMin = DayStart(ClaimedSearchDate(instruction))
                  /\ calls[i].request.timeMax = DayEnd(ClaimedSearchDate(instruction))
             /\ pc \in { "cal_patch", "cal_delete" } =>
                  /\ DayMatches # << >>
                  /\ params.eventId = DayMatches[1].id
             /\ (pc = "done" /\ CallsOf({ "calendar.patch", "calendar.delete" }) = {}
                 /\ \E i \in CallsOf({ "calendar.list" }) : calls[i].ok) =>
                  /\ DayMatches = << >>
                  /\ response = EditResponse(FailureText(NotIdentified))


\* The fields of an event the instruction of update_event may provide
PatchFields == { "summary", "description", "location", "attendees", "start", "end" }

\* The patch object carries the field
Sent(patch, f) == f \in DOMAIN patch /\ patch[f] # NoText

\* C22: the patch that update_event sends to the event-store contains
\* exactly the fields the instruction provides among summary, description,
\* location, attendees, start and end, so every field the instruction does
\* not provide is left as the stored event has it, and no other event
\* changes.
C22_PatchCarriesExactlyProvidedFields ==
    [][ (pc = "cal_patch" /\ pc' = "done" /\ calls'[Len(calls')].ok) =>
          LET ev   == instruction.event
              sent == calls'[Len(calls')].request.patch
              old  == TheEvent(events, PendingCall.calendarId, params.eventId)
              new  == TheEvent(events', PendingCall.calendarId, params.eventId)
          IN  /\ calls'[Len(calls')].op = "calendar.patch"
              /\ \A f \in PatchFields : Sent(sent, f) <=> ev[f] # NoText
              /\ \A f \in PatchFields : ev[f] = NoText => new[f] = old[f]
              /\ new.id = old.id /\ new.calendarId = old.calendarId
              /\ events' \ { new } = events \ { old }
      ]_vars


\* ------------------------------------------------------------------------
\* Properties of two edit requests at the same time
\* ------------------------------------------------------------------------

\* The updateSheetCell call of the first request has returned
MainWrites ==
    /\ pc = "sheet_update" /\ pc' = "done"
    /\ calls'[Len(calls')].ok

\* The updateSheetCell call of the second request has returned
RivalWrites ==
    /\ rival.pc = "sheet_update" /\ rival'.pc = "done"
    /\ rival'.calls[Len(rival'.calls)].ok

\* C23: two edit requests that interleave read, resolve and write with no
\* lock or version check: each write that reaches the store overwrites the
\* cell its request resolved with its request's value, whatever the cell
\* holds by then, and its request reports success, so the cell keeps the
\* value of the write applied last; no step changes a cell other than the
\* one resolved by the request that writes.
C23_LastWriteWins ==
    [][ /\ MainWrites =>
              /\ CellAt(sheet', located.rowIndex, located.colIndex) = params.newValue
              /\ SameButCell(sheet, sheet', located.rowIndex, located.colIndex)
              /\ response' = EditResponse(SheetSuccessText(instruction, SessionVars(body)))
        /\ RivalWrites =>
              /\ CellAt(sheet', rival.located.rowIndex, rival.located.colIndex)
                   = rival.params.newValue
              /\ SameButCell(sheet, sheet', rival.located.rowIndex, rival.located.colIndex)
              /\ rival'.response = EditResponse(SheetSuccessText(rival.instruction,
                                                                 SessionVars(body)))
        /\ sheet' # sheet => MainWrites \/ RivalWrites
      ]_vars

\* C23 witness: a lost update.  Both requests read the same value of the
\* same cell, both confirmed their update, and the cell holds the value of
\* the second: the confirmed update of the first is lost
C23_Witness ==
    /\ route = "editData" /\ pc = "done" /\ rival.pc = "done"
    /\ result # None
    /\ rival.calls[Len(rival.calls)].op = "sheets.update"
    /\ rival.calls[Len(rival.calls)].ok
    /\ response = EditResponse(SheetSuccessText(instruction, SessionVars(body)))
    /\ rival.response = EditResponse(SheetSuccessText(rival.instruction, SessionVars(body)))
    /\ located.rowIndex = rival.located.rowIndex
    /\ located.colIndex = rival.located.colIndex
    /\ located.old = rival.located.old
    /\ params.newValue # rival.params.newValue
    /\ CellAt(sheet, located.rowIndex, located.colIndex) = rival.params.newValue


\* ------------------------------------------------------------------------
\* Properties of the order of the external calls
\* ------------------------------------------------------------------------

\* The place of an external call in the order history fetch,
\* classification, store read, store mutation
CallRank(op) ==
    CASE op = "history"  -> 1
      [] op = "classify" -> 2
      [] op \in { "sheets.get", "calendar.list" } -> 3
      [] OTHER -> 4

\* C24: within one edit request the external calls come one at a time in
\* the order history fetch, classification, store read (table read or event
\* search), store mutation: a call is followed by another only when it has
\* returned, or is the history fetch whose failure is caught; no store call
\* precedes the classifier's result; and the request issues at most one
\* store mutation.
C24_CallsInFixedOrder ==
    route = "editData" =>
        /\ \A i, j \in 1..Len(calls) :
             i < j => CallRank(calls[i].op) < CallRank(calls[j].op)
        /\ \A i \in 1..(Len(calls) - 1) : calls[i].ok \/ calls[i].op = "history"
        /\ \A i \in CallsOf(StoreOps) :
             \E j \in 1..(i - 1) : calls[j].op = "classify" /\ calls[j].ok
        /\ Cardinality({ i \in 1..Len(calls) : CallRank(calls[i].op) = 4 }) <= 1

\* C24 witness: a request that made all four kinds of call: the history
\* fetch, the classification, an event search and the patch of the event
C24_Witness ==
    /\ route = "editData" /\ pc = "done"
    /\ Len(calls) = 4
    /\ calls[1].op = "history" /\ calls[2].op = "classify"
    /\ calls[3].op = "calendar.list" /\ calls[4].op = "calendar.patch"
    /\ \A i \in 1..4 : calls[i].ok


\* ------------------------------------------------------------------------
\* Properties of a replayed request
\* ------------------------------------------------------------------------

\* The request in progress repeats a confirmed update of the directory
Replaying == previous.replayed # None /\ route = "editData"

\* C25: replaying a successful update_phone, update_email, update_name or
\* update_sheet_field request unchanged (same body, same classifier output,
\* no other writer) leaves the table exactly as the first execution left
\* it: the replay resolves the cell the first execution wrote and rewrites
\* it with the same value, or fails without writing, and never modifies
\* another row, also when several rows share the identifier value.
C25_ReplayLeavesTableAsItWas ==
    Replaying =>
        /\ sheet = previous.replayed.sheet
        /\ located # None =>
             /\ instruction = previous.instruction
             /\ located.rowIndex = previous.replayed.located.rowIndex
             /\ located.colIndex = previous.replayed.located.colIndex


\* ------------------------------------------------------------------------
\* Properties of the user lookup
\* ------------------------------------------------------------------------

\* The last n elements of a sequence, all of it when it is shorter
LastN(s, n) == [i \in 1..(IF Len(s) < n THEN Len(s) ELSE n) |->
                  s[i + (IF Len(s) < n THEN 0 ELSE Len(s) - n)]]

\* The digits of the phone cell of a data row ("" when the row has none)
PhoneDigits(row) == IF Len(row) >= 2 THEN onlyDigits(row[2]) ELSE << >>

\* The data rows the lookup is to match: the input has at least 11 digits
\* and the last 11 digits of the two are the same
RowsOfPhone(input) ==
    { i \in 2..Len(sheet) :
        /\ Len(onlyDigits(input)) >= 11
        /\ LastN(PhoneDigits(sheet[i]), 11) = LastN(onlyDigits(input), 11) }

\* The lookup has read the table and answered
LookedUp ==
    /\ route = "getUserData" /\ pc = "done"
    /\ calls # << >> /\ calls[Len(calls)].ok

====
